---------------------------- MODULE Spec2Model ----------------------------
(***************************************************************************)
(* Model of the DIRISI 2025 backend core:                                  *)
(*   - the anomaly classification pipeline (services/anomaly_detector.py)  *)
(*   - the feature aggregator (services/feature_store.py)                  *)
(*   - the rule and statistical risk models (services/modeling.py)         *)
(*                                                                         *)
(* Conventions.  A log batch is a DataFrame read by pd.read_csv: a         *)
(* sequence of rows indexed 1..n (the RangeIndex 0..n-1 shifted by one),   *)
(* every cell the CSV text of the cell.  The empty cell "" is what pandas  *)
(* reads as NaN (session_id is kept as a tuple of characters, so that      *)
(* str.contains can look at them, and its empty cell is << >>).            *)
(* Real numbers are scaled integers: metric values in hundredths,          *)
(* scores in hundredths.                                                   *)
(***************************************************************************)
EXTENDS Integers, Sequences, FiniteSets, TLC

VARIABLES
    df,         \* the log batch handed to AnomalyPipeline.run
    pipe_pc,    \* "collect" while the batch is read, "done" once run returned
    all_anomalies, \* run's list of the detectors' results, in detector order
    df_final,   \* the DataFrame returned by AnomalyPipeline.run
    bug_types,  \* a bug_type column handed to AnomalyClassifier.enrich
    enriched,   \* the (bug_type, severity, type) rows enrich returns
    metrics_df, \* the metric batch handed to FeatureStore.compute_features
    feat_pc,    \* "load" while the batch is built, "done" once features exist
    features_df, \* what compute_features returned (rows, or the error raised)
    rule_features, \* the features dict handed to RuleBasedModel.predict
    rule_pc,    \* "build" while the dict is filled, "done" once predict returned
    rule_result, \* (risk_score, risk_band, explanations) of RuleBasedModel.predict
    models,     \* the MLBasedModel instances, in order of construction
    provenance, \* history: how each instance came by its state
    artifact,   \* the content of models_dir / "ml.joblib", None if no file
    artifact_provenance, \* history: whether a trained instance saved it
    ml_model,   \* ModelManager.ml_model: 0 for None, else the instance
    train_calls, \* the number of train calls made so far
    ml_result,  \* how the MLBasedModel.predict call just made ended
    train_pc,   \* the train call in progress in another thread, and its place
    rule_model, \* ModelManager.rule_model: "None", or how it was made
    rule_file,  \* whether models_dir / "rule.joblib" exists
    selected,   \* how the ModelManager.get_model call just made ended
    topology_file, \* whether data_dir / "raw" / "topology.json" exists
    metrics_file, \* the batch in interim / "metrics.parquet", None if no file
    file_features, \* compute_features of metrics_file, as every request
                \* computes it: a function of the file, kept beside it
    ingest_pc,  \* "idle", or "metrics" while an ingest has yet to write them
    ingested,   \* history: whether an ingest has completed
    model_mode, \* settings.model_mode
    response,    \* the answer to the /v1/predict request just served
    det_input, \* history: the batch as it was handed to AnomalyPipeline.run
    det_df, \* the DataFrame object df every detector is called on
    det_ran, \* the detectors called so far, in the order of self.detectors
    det_out, \* the DataFrame each of them returned
    det_pc, \* "pick" before the batch is chosen, "detect", "done" after run
    det_final, \* the DataFrame this run returned
    fit_columns, \* self.feature_columns of a trained MLBasedModel
    fit_coef, \* self.logreg.coef_[0], one coefficient per feature column
    top_features, \* the features dict of the _get_top_features call just made
    top_result, \* what that call returned
    limit_per_min, \* self.limit_per_min of the RateLimitMiddleware
    requests, \* self.requests: client ip -> the times it keeps
    current_time, \* what time.time() returns, in seconds
    rate_log, \* every request dispatched so far: client, time, outcome
    plan_scores, \* risk_scores as built so far: (id, score) in insertion order
    plan_request, \* the PlanRequest of the generate_plan call just made
    plan_topology, \* the topology of the generate_plan call just made
    plan_response \* the PlanResponse it returned

pipeVars == <<df, pipe_pc, all_anomalies, df_final>>
taxVars == <<bug_types, enriched>>
featVars == <<metrics_df, feat_pc, features_df>>

ruleVars == <<rule_features, rule_pc, rule_result>>

mlVars == <<models, provenance, artifact, artifact_provenance, ml_model,
           train_calls, ml_result>>

threadVars == <<train_pc>>

selVars == <<rule_model, rule_file, selected>>

apiVars == <<topology_file, metrics_file, file_features, ingest_pc, ingested,
            model_mode, response>>

detVars == <<det_input, det_df, det_ran, det_out, det_pc, det_final>>

explainVars == <<fit_columns, fit_coef, top_features, top_result>>

rateVars == <<limit_per_min, requests, current_time, rate_log>>

planVars == <<plan_scores, plan_request, plan_topology, plan_response>>

vars == <<pipeVars, taxVars, featVars, ruleVars, mlVars, threadVars, selVars,
          apiVars, detVars, explainVars, rateVars, planVars>>

\* what an operation of one component leaves alone: the other components
notPipe == <<taxVars, featVars, ruleVars, mlVars, threadVars, selVars,
             apiVars, detVars, explainVars, rateVars, planVars>>
notTax == <<pipeVars, featVars, ruleVars, mlVars, threadVars, selVars,
            apiVars, detVars, explainVars, rateVars, planVars>>
notFeat == <<pipeVars, taxVars, ruleVars, mlVars, threadVars, selVars,
             apiVars, detVars, explainVars, rateVars, planVars>>
notRule == <<pipeVars, taxVars, featVars, mlVars, threadVars, selVars,
             apiVars, detVars, explainVars, rateVars, planVars>>
notML == <<pipeVars, taxVars, featVars, ruleVars, threadVars, selVars,
           apiVars, detVars, explainVars, rateVars, planVars>>
notThreads == <<pipeVars, taxVars, featVars, ruleVars, selVars, apiVars,
                detVars, explainVars, rateVars, planVars>>
notSel == <<pipeVars, taxVars, featVars, ruleVars, threadVars, apiVars,
            detVars, explainVars, rateVars, planVars>>
notApi == <<pipeVars, taxVars, featVars, ruleVars, threadVars, selVars,
            detVars, explainVars, rateVars, planVars>>
notDet == <<pipeVars, taxVars, featVars, ruleVars, mlVars, threadVars,
            selVars, apiVars, explainVars, rateVars, planVars>>
notExplain == <<pipeVars, taxVars, featVars, ruleVars, mlVars, threadVars,
                selVars, apiVars, detVars, rateVars, planVars>>
notRate == <<pipeVars, taxVars, featVars, ruleVars, mlVars, threadVars,
             selVars, apiVars, detVars, explainVars, planVars>>
notPlan == <<pipeVars, taxVars, featVars, ruleVars, mlVars, threadVars,
             selVars, apiVars, detVars, explainVars, rateVars>>

(***************************************************************************)
(* Bounds                                                                  *)
(***************************************************************************)
MaxRows == 3
MaxEnrich == 2
MaxSamples == 3
MaxModels == 2
MaxTrainCalls == 2
MaxTargets == 2
MaxColumns == 4
MaxRequests == 4
MaxTicks == 4
MaxScores == 3

(***************************************************************************)
(* Generic sequence helpers                                                *)
(***************************************************************************)
Indices(s) == [i \in 1..Len(s) |-> i]

\* the rows of s at the positions of idx, in that order (df[mask])
Take(s, idx) == [k \in 1..Len(idx) |-> s[idx[k]]]

RECURSIVE Concat(_)
Concat(ss) == IF ss = << >> THEN << >> ELSE Head(ss) \o Concat(Tail(ss))

(***************************************************************************)
(* pandas conversions                                                      *)
(***************************************************************************)
NaT == [nat |-> TRUE, sec |-> 0, tz |-> "naive"]
Timestamp(s) == [nat |-> FALSE, sec |-> s, tz |-> "naive"]

\* seconds since 2025-02-01 00:00:00 of every timestamp text the parser accepts
DatetimeFormats ==
    [ s \in {"2025-02-01 00:00:00", "2025-02-01T00:00:00",
             "2025-02-01 00:00:01", "2025-02-01 00:00:05"} |->
        CASE s = "2025-02-01 00:00:00" -> 0
          [] s = "2025-02-01T00:00:00" -> 0
          [] s = "2025-02-01 00:00:01" -> 1
          [] s = "2025-02-01 00:00:05" -> 5 ]

\* pd.to_datetime(x, errors='coerce'): NaT for NaN and for what does not parse
to_datetime(x) ==
    IF x \in DOMAIN DatetimeFormats THEN Timestamp(DatetimeFormats[x]) ELSE NaT

\* pd.to_datetime(ts, errors='coerce', utc=True) of a naive datetime64 value
to_datetime_utc(ts) == IF ts.nat THEN ts ELSE [ts EXCEPT !.tz = "UTC"]

\* timestamp + timedelta(seconds=1)
PlusOneSecond(ts) == [ts EXCEPT !.sec = @ + 1]

NumericTexts ==
    [ s \in {"80", "443", "100", "12", "-5", "0"} |->
        CASE s = "80" -> 80 [] s = "443" -> 443 [] s = "100" -> 100
          [] s = "12" -> 12 [] s = "-5" -> 0 - 5 [] s = "0" -> 0 ]

NaN == [nan |-> TRUE, val |-> 0]

\* pd.to_numeric(x, errors='coerce')
to_numeric(x) ==
    IF x \in DOMAIN NumericTexts THEN [nan |-> FALSE, val |-> NumericTexts[x]]
    ELSE NaN

(***************************************************************************)
(* The log batch                                                           *)
(***************************************************************************)
Columns ==
    {"timestamp", "firewall_id", "src_ip", "dst_ip", "src_port", "dst_port",
     "protocol", "action", "bytes", "duration_ms", "rule_id", "status",
     "session_id", "reason"}

\* isnull of one cell
isnull(row, col) ==
    IF col = "session_id" THEN row[col] = << >> ELSE row[col] = ""

ValidRow ==
    [timestamp |-> "2025-02-01 00:00:00", firewall_id |-> "FW1",
     src_ip |-> "10.0.0.1", dst_ip |-> "10.0.0.2",
     src_port |-> "443", dst_port |-> "80",
     protocol |-> "TCP", action |-> "ALLOW", bytes |-> "100",
     duration_ms |-> "12", rule_id |-> "R1", status |-> "OK",
     session_id |-> <<"s", "1">>, reason |-> "Normal traffic"]

EmptyRow ==
    [c \in Columns |-> IF c = "session_id" THEN << >> ELSE ""]

\* The rows a batch is made of: well-formed rows, rows with one defect, rows
\* with several, empty rows, and rows equal but for fields the findings drop.
Rows ==
    { [ValidRow EXCEPT !.timestamp = t] :
        t \in {"2025-02-01 00:00:00", "2025-02-01T00:00:00",
               "2025-02-01 00:00:05", "31/31/2025", ""} }
    \cup { [EmptyRow EXCEPT !.timestamp = t] :
        t \in {"", "31/31/2025", "2025-02-01 00:00:00"} }
    \cup { [EmptyRow EXCEPT !.timestamp = "not a date", !.status = "OK"],
           [EmptyRow EXCEPT !.firewall_id = "FW1"],
           [ValidRow EXCEPT !.bytes = "-5"],
           [ValidRow EXCEPT !.bytes = "-5", !.src_port = ""],
           [ValidRow EXCEPT !.bytes = "-5", !.timestamp = "31/31/2025"],
           [ValidRow EXCEPT !.src_port = "http"],
           [ValidRow EXCEPT !.dst_port = ""],
           [ValidRow EXCEPT !.src_ip = "999.999.999.999"],
           [ValidRow EXCEPT !.src_ip = "999.999.999.999",
                            !.dst_ip = "999.999.999.999"],
           [ValidRow EXCEPT !.session_id = <<"s", "1", "|", "s", "2">>],
           [ValidRow EXCEPT !.rule_id = ""],
           [ValidRow EXCEPT !.reason = "Potential DDoS - high rate"],
           [ValidRow EXCEPT !.reason = "Port scan detected",
                            !.duration_ms = "0"],
           [ValidRow EXCEPT !.firewall_id = "FW2", !.bytes = "-5",
                            !.dst_ip = "999.999.999.999", !.dst_port = "http",
                            !.session_id = <<"|">>, !.status = "",
                            !.reason = "Suspicious SQL payload",
                            !.timestamp = "2025-02-01 00:00:01"] }


(***************************************************************************)
(* Detectors (anomaly_detector.py).  Each returns the DataFrame of its     *)
(* findings: columns timestamp, firewall_id, src_ip, dst_ip, protocol,     *)
(* action, bug_type, rows in the order of the batch.                       *)
(***************************************************************************)
\* lignes[['timestamp','firewall_id','src_ip','dst_ip','protocol','action']]
\* of a row of df_temp (timestamp already converted), plus bug_type
Finding(row, ts, bug) ==
    [timestamp |-> ts, firewall_id |-> row.firewall_id,
     src_ip |-> row.src_ip, dst_ip |-> row.dst_ip,
     protocol |-> row.protocol, action |-> row.action, bug_type |-> bug]

\* a concat that keeps every row
DropDuplicatesKeepAll(s) == s

\* DataFrame.drop_duplicates(): the first of every run of rows equal in all
\* columns is kept (NaN and NaT compare equal to themselves there)
DropDuplicates(s) ==
    Take(s, SelectSeq(Indices(s), LAMBDA i : \A j \in 1..(i - 1) : s[j] # s[i]))

\* a count that needs two other values before the row is not corrupt
NaTBugTypeOffByOne(row) ==
    IF \E c, d \in Columns \ {"timestamp"} :
           c # d /\ ~isnull(row, c) /\ ~isnull(row, d)
    THEN "malformed_timestamp"
    ELSE "corrupt_line"

\* lignes_nat.loc[index_n, autres_colonnes].count() > 0
NaTBugType(row) ==
    IF \E c \in Columns \ {"timestamp"} : ~isnull(row, c)
    THEN "malformed_timestamp"
    ELSE "corrupt_line"

\* an imputation that reads the previous row after its own imputation
RECURSIVE NaTImpute_chained(_, _)
NaTImpute_chained(batch, i) ==
    IF i <= 1 THEN NaT
    ELSE LET precedent ==
                 IF to_datetime(batch[i - 1].timestamp).nat
                 THEN NaTImpute_chained(batch, i - 1)
                 ELSE to_datetime(batch[i - 1].timestamp)
         IN  IF precedent.nat THEN NaT ELSE PlusOneSecond(precedent)

\* the imputation loop: previous row of df_temp (never of lignes_nat)
NaTImpute(batch, i) ==
    IF i > 1 /\ ~to_datetime(batch[i - 1].timestamp).nat
    THEN PlusOneSecond(to_datetime(batch[i - 1].timestamp))
    ELSE NaT

NaTDetector(batch) ==
    LET lignes_nat ==
            SelectSeq(Indices(batch),
                      LAMBDA i : to_datetime(batch[i].timestamp).nat)
    IN  [k \in 1..Len(lignes_nat) |->
            Finding(batch[lignes_nat[k]], NaTImpute(batch, lignes_nat[k]),
                    NaTBugType(batch[lignes_nat[k]]))]

\* findings that take the imputed timestamp of the timestamp detector
Flag_imputed(batch, idx, bug) ==
    [k \in 1..Len(idx) |->
        Finding(batch[idx[k]],
                IF to_datetime(batch[idx[k]].timestamp).nat
                THEN NaTImpute(batch, idx[k])
                ELSE to_datetime(batch[idx[k]].timestamp),
                bug)]

\* every other detector: df_temp[condition], timestamp converted, one bug_type
Flag(batch, idx, bug) ==
    [k \in 1..Len(idx) |->
        Finding(batch[idx[k]], to_datetime(batch[idx[k]].timestamp), bug)]

NonNumericPortCondition(row) ==
    to_numeric(row.src_port).nan \/ to_numeric(row.dst_port).nan

NonNumericPortDetector(batch) ==
    Flag(batch,
         SelectSeq(Indices(batch),
                   LAMBDA i : NonNumericPortCondition(batch[i])),
         "nonnumeric_port")

\* the comparison with its sign turned
NegativeBytesConditionFlipped(row) ==
    ~to_numeric(row.bytes).nan /\ to_numeric(row.bytes).val > 0

\* df_temp['bytes'] < 0 after to_numeric: NaN < 0 is False
NegativeBytesCondition(row) ==
    ~to_numeric(row.bytes).nan /\ to_numeric(row.bytes).val < 0

NegativeBytesDetector(batch) ==
    Flag(batch,
         SelectSeq(Indices(batch),
                   LAMBDA i : NegativeBytesCondition(batch[i])),
         "negative_bytes")

ip_target == "999.999.999.999"

\* the rows of src_ip == target, then those of dst_ip == target, duplicates
\* dropped before bug_type is set
InvalidIPDetector(batch) ==
    LET hits(col) ==
            SelectSeq(Indices(batch), LAMBDA i : batch[i][col] = ip_target)
        both == Flag(batch, hits("src_ip") \o hits("dst_ip"), "invalid_ip")
    IN  DropDuplicates(both)

\* session_id.astype(str).str.contains(r'\|', na=False)
DuplicateFieldCondition(row) ==
    \E k \in 1..Len(row.session_id) : row.session_id[k] = "|"

DuplicateFieldDetector(batch) ==
    Flag(batch,
         SelectSeq(Indices(batch),
                   LAMBDA i : DuplicateFieldCondition(batch[i])),
         "duplicate_field")

REQUIRED_FIELDS ==
    {"firewall_id", "src_ip", "dst_ip", "protocol", "action", "bytes",
     "duration_ms", "rule_id", "status", "session_id", "reason"}

\* df_temp[fields_to_check].isnull().any(axis=1); every required field is a
\* column of the batch
MissingFieldCondition(row) ==
    \E f \in REQUIRED_FIELDS \cap Columns : isnull(row, f)

MissingFieldDetector(batch) ==
    Flag(batch,
         SelectSeq(Indices(batch),
                   LAMBDA i : MissingFieldCondition(batch[i])),
         "missing_field")

THREAT_MAPPING ==
    [ r \in {"Potential DDoS - high rate", "Port scan detected",
             "Multiple auth failures", "XSS attempt",
             "Known malicious domain contacted", "Suspicious SQL payload"} |->
        CASE r = "Potential DDoS - high rate" -> "ddos"
          [] r = "Port scan detected" -> "port_scan"
          [] r = "Multiple auth failures" -> "brut_force"
          [] r = "XSS attempt" -> "xss"
          [] r = "Known malicious domain contacted" -> "malware_download"
          [] r = "Suspicious SQL payload" -> "sql_injection" ]

ThreatCondition(row) == row.reason \in DOMAIN THREAT_MAPPING

ThreatDetector(batch) ==
    LET idx == SelectSeq(Indices(batch),
                         LAMBDA i : ThreatCondition(batch[i]))
    IN  [k \in 1..Len(idx) |->
            Finding(batch[idx[k]], to_datetime(batch[idx[k]].timestamp),
                    THREAT_MAPPING[batch[idx[k]].reason])]

(***************************************************************************)
(* AnomalyClassifier                                                       *)
(***************************************************************************)
CLASSIFICATION ==
    [ b \in {"malformed_timestamp", "corrupt_line", "nonnumeric_port",
             "missing_field", "negative_bytes", "invalid_ip",
             "duplicate_field", "port_scan", "brut_force", "xss",
             "malware_download", "ddos", "sql_injection"} |->
        CASE b = "malformed_timestamp" -> [severity |-> "High", type |-> "Bug"]
          [] b = "corrupt_line" -> [severity |-> "High", type |-> "Bug"]
          [] b = "nonnumeric_port" -> [severity |-> "Medium", type |-> "Bug"]
          [] b = "missing_field" -> [severity |-> "Low", type |-> "Bug"]
          [] b = "negative_bytes" -> [severity |-> "Medium", type |-> "Bug"]
          [] b = "invalid_ip" -> [severity |-> "High", type |-> "Bug"]
          [] b = "duplicate_field" -> [severity |-> "Low", type |-> "Bug"]
          [] b = "port_scan" -> [severity |-> "Medium", type |-> "Attack"]
          [] b = "brut_force" -> [severity |-> "High", type |-> "Attack"]
          [] b = "xss" -> [severity |-> "Medium", type |-> "Attack"]
          [] b = "malware_download" -> [severity |-> "High", type |-> "Attack"]
          [] b = "ddos" -> [severity |-> "High", type |-> "Attack"]
          [] b = "sql_injection" -> [severity |-> "High", type |-> "Attack"] ]

\* a lookup whose default is the lowest registered class
classifyDefaultLow(bug_type) ==
    IF bug_type \in DOMAIN CLASSIFICATION
    THEN CLASSIFICATION[bug_type]
    ELSE [severity |-> "Low", type |-> "Bug"]

\* CLASSIFICATION.get(bug_type, {'severity': 'Unknown', 'type': 'Unknown'})
classify(bug_type) ==
    IF bug_type \in DOMAIN CLASSIFICATION
    THEN CLASSIFICATION[bug_type]
    ELSE [severity |-> "Unknown", type |-> "Unknown"]

\* enrich of one row: the row with severity and type added
EnrichRow(f) ==
    [timestamp |-> f.timestamp, firewall_id |-> f.firewall_id,
     src_ip |-> f.src_ip, dst_ip |-> f.dst_ip, protocol |-> f.protocol,
     action |-> f.action, bug_type |-> f.bug_type,
     severity |-> classify(f.bug_type).severity,
     type |-> classify(f.bug_type).type]

enrich(s) == [k \in 1..Len(s) |-> EnrichRow(s[k])]

\* enrich of a DataFrame that holds the bug_type column alone
EnrichBugTypes(s) ==
    [k \in 1..Len(s) |->
        [bug_type |-> s[k], severity |-> classify(s[k]).severity,
         type |-> classify(s[k]).type]]

(***************************************************************************)
(* AnomalyPipeline                                                         *)
(***************************************************************************)
\* a detector list that stops at the first detector that flags a row
DetectShortCircuit(batch) ==
    LET d1 == NaTDetector(batch)
        rest(prev) ==
            SelectSeq(batch, LAMBDA r :
                \A k \in 1..Len(prev) :
                    \/ prev[k].firewall_id # r.firewall_id
                    \/ prev[k].src_ip # r.src_ip
                    \/ prev[k].dst_ip # r.dst_ip
                    \/ prev[k].protocol # r.protocol
                    \/ prev[k].action # r.action)
        d2 == NonNumericPortDetector(rest(d1))
        d3 == NegativeBytesDetector(rest(d1 \o d2))
        d4 == InvalidIPDetector(rest(d1 \o d2 \o d3))
        d5 == DuplicateFieldDetector(rest(d1 \o d2 \o d3 \o d4))
        d6 == MissingFieldDetector(rest(d1 \o d2 \o d3 \o d4 \o d5))
        d7 == ThreatDetector(rest(d1 \o d2 \o d3 \o d4 \o d5 \o d6))
    IN  <<d1, d2, d3, d4, d5, d6, d7>>

\* _init_detectors and the loop of run: every detector on the whole batch,
\* in list order (an empty result is not appended, which pd.concat does not
\* see)
Detect(batch) ==
    <<NaTDetector(batch), NonNumericPortDetector(batch),
      NegativeBytesDetector(batch), InvalidIPDetector(batch),
      DuplicateFieldDetector(batch), MissingFieldDetector(batch),
      ThreatDetector(batch)>>

\* a < b for sort_values: NaT is no value and goes last (na_position='last')
TsBefore(a, b) == ~a.nat /\ (b.nat \/ a.sec < b.sec)

\* a sort that leaves out the rows whose timestamp is NaT
sort_values_dropna(s) ==
    LET kept == SelectSeq(s, LAMBDA f : ~f.timestamp.nat)
        rank(i) ==
            Cardinality({j \in 1..Len(kept) :
                \/ kept[j].timestamp.sec < kept[i].timestamp.sec
                \/ /\ kept[j].timestamp.sec = kept[i].timestamp.sec
                   /\ j < i}) + 1
    IN  [p \in 1..Len(kept) |-> kept[CHOOSE i \in 1..Len(kept) : rank(i) = p]]

\* a sort with na_position='first'
sort_values_na_first(s) ==
    LET before(a, b) == (a.nat /\ ~b.nat) \/ (~a.nat /\ ~b.nat /\ a.sec < b.sec)
        rank(i) ==
            Cardinality({j \in 1..Len(s) :
                \/ before(s[j].timestamp, s[i].timestamp)
                \/ /\ ~before(s[i].timestamp, s[j].timestamp)
                   /\ j < i}) + 1
    IN  [p \in 1..Len(s) |-> s[CHOOSE i \in 1..Len(s) : rank(i) = p]]

\* sort_values(by='timestamp').reset_index(drop=True): ascending, NaT last,
\* equal timestamps in their order of arrival
sort_values(s) ==
    LET rank(i) ==
            Cardinality({j \in 1..Len(s) :
                \/ TsBefore(s[j].timestamp, s[i].timestamp)
                \/ /\ ~TsBefore(s[i].timestamp, s[j].timestamp)
                   /\ j < i}) + 1
    IN  [p \in 1..Len(s) |-> s[CHOOSE i \in 1..Len(s) : rank(i) = p]]

\* df_final['timestamp'] = pd.to_datetime(..., errors='coerce', utc=True)
CoerceUtc(s) ==
    [k \in 1..Len(s) |-> [s[k] EXCEPT !.timestamp = to_datetime_utc(@)]]

run(batch) ==
    enrich(sort_values(CoerceUtc(DropDuplicates(Concat(Detect(batch))))))

\* AnomalyPipeline._init_detectors: the classes of self.detectors
DetectorNames ==
    {"NaTDetector", "NonNumericPortDetector", "NegativeBytesDetector",
     "InvalidIPDetector", "DuplicateFieldDetector", "MissingFieldDetector",
     "ThreatDetector"}

\* the batches the detectors are run on in every order: a row with a bad
\* timestamp and negative bytes beside a row with six defects; a valid row,
\* a nearly empty row and a bad port; a single valid row
DetectorBatches ==
    { <<[ValidRow EXCEPT !.bytes = "-5", !.timestamp = "31/31/2025"],
        [ValidRow EXCEPT !.firewall_id = "FW2", !.bytes = "-5",
                         !.dst_ip = "999.999.999.999", !.dst_port = "http",
                         !.session_id = <<"|">>, !.status = "",
                         !.reason = "Suspicious SQL payload",
                         !.timestamp = "2025-02-01 00:00:01"]>>,
      <<ValidRow, [EmptyRow EXCEPT !.firewall_id = "FW1"],
        [ValidRow EXCEPT !.src_port = "http"]>>,
      <<ValidRow>> }

\* what the detect of one class returns for df
anomalies(class, batch) ==
    CASE class = "NaTDetector" -> NaTDetector(batch)
      [] class = "NonNumericPortDetector" -> NonNumericPortDetector(batch)
      [] class = "NegativeBytesDetector" -> NegativeBytesDetector(batch)
      [] class = "InvalidIPDetector" -> InvalidIPDetector(batch)
      [] class = "DuplicateFieldDetector" -> DuplicateFieldDetector(batch)
      [] class = "MissingFieldDetector" -> MissingFieldDetector(batch)
      [] class = "ThreatDetector" -> ThreatDetector(batch)

\* a detect without df.copy(): the coerced timestamp column is written to df
\* itself, where what did not parse is now null
detect_in_place(class, batch) ==
    [anomalies |-> anomalies(class, batch),
     df |-> [k \in 1..Len(batch) |->
               [batch[k] EXCEPT !.timestamp =
                   IF to_datetime(@).nat THEN "" ELSE @]]]

\* detector.detect(df): every detect starts with df_temp = df.copy() and
\* assigns to df_temp and to copies of its selections only, so df is after
\* the call what it was before
detect(class, batch) ==
    [anomalies |-> anomalies(class, batch), df |-> batch]

\* run after its loop: concat, drop_duplicates, timestamp to UTC, sort, enrich
merge(results) ==
    enrich(sort_values(CoerceUtc(DropDuplicates(Concat(results)))))

(***************************************************************************)
(* FeatureStore (feature_store.py).  A metric batch is a DataFrame with    *)
(* the columns ts, node_id, link_id and one column per metric; ts is in    *)
(* minutes, a metric value is a number in hundredths or NaN, an absent id  *)
(* is "".                                                                  *)
(***************************************************************************)
Num(v) == [nan |-> FALSE, val |-> v]

MetricColumns == {"cpu", "latency_ms"}

NodeSample(id, t, cpu) ==
    [ts |-> t, node_id |-> id, link_id |-> "", cpu |-> cpu, latency_ms |-> NaN]

LinkSample(id, t, lat) ==
    [ts |-> t, node_id |-> "", link_id |-> id, cpu |-> NaN, latency_ms |-> lat]

\* The samples a batch is made of: node N1 over 40 minutes with cpu values,
\* zeros and gaps, a second node, and a link.
Samples ==
    { NodeSample("N1", t, v) :
        t \in {0, 5, 10}, v \in {NaN, Num(0), Num(50), Num(60), Num(90)} }
    \cup { NodeSample("N1", 20, Num(60)), NodeSample("N1", 40, Num(90)),
           NodeSample("N2", 5, Num(70)), NodeSample("N2", 10, Num(20)),
           LinkSample("L1", 10, Num(1200)) }

\* compute_features' default windows, in minutes
windows == <<5, 15, 30>>

\* data.sort_values("ts"): ascending, equal ts in their order of arrival
sort_values_ts(s) ==
    LET rank(i) ==
            Cardinality({j \in 1..Len(s) :
                s[j].ts < s[i].ts \/ (s[j].ts = s[i].ts /\ j < i)}) + 1
    IN  [p \in 1..Len(s) |-> s[CHOOSE i \in 1..Len(s) : rank(i) = p]]

\* Series.unique(): the values in their order of first appearance
unique(s) ==
    Take(s, SelectSeq(Indices(s), LAMBDA i : \A j \in 1..(i - 1) : s[j] # s[i]))

RECURSIVE SeqSum(_)
SeqSum(s) == IF s = << >> THEN 0 ELSE Head(s) + SeqSum(Tail(s))

SeqMin(s) == CHOOSE v \in {s[k] : k \in 1..Len(s)} :
                 \A k \in 1..Len(s) : v <= s[k]

SeqMax(s) == CHOOSE v \in {s[k] : k \in 1..Len(s)} :
                 \A k \in 1..Len(s) : v >= s[k]

\* a window with no upper end: every sample from window_start on
window_data_lookahead(data, k, window_min) ==
    LET window_start == data[k].ts - window_min
        inside == {i \in 1..Len(data) : window_start <= data[i].ts}
    IN  SubSeq(data, CHOOSE lo \in inside : \A i \in inside : lo <= i,
               Len(data))

\* a window open at its start
window_data_open(data, k, window_min) ==
    LET ts == data[k].ts
        window_start == ts - window_min
        inside == {i \in 1..Len(data) : window_start < data[i].ts}
        upto == {i \in 1..Len(data) : data[i].ts <= ts}
    IN  SubSeq(data, CHOOSE lo \in inside : \A i \in inside : lo <= i,
               CHOOSE hi \in upto : \A i \in upto : hi >= i)

\* data.loc[window_start:ts] on the sorted index: the slice from the first
\* position whose label is >= window_start to the last whose label is <= ts
window_data(data, k, window_min) ==
    LET ts == data[k].ts
        window_start == ts - window_min
        inside == {i \in 1..Len(data) : window_start <= data[i].ts}
        upto == {i \in 1..Len(data) : data[i].ts <= ts}
    IN  SubSeq(data, CHOOSE lo \in inside : \A i \in inside : lo <= i,
               CHOOSE hi \in upto : \A i \in upto : hi >= i)

\* window_data[col].dropna(), as the sequence of its values
col_data(data, k, window_min, col) ==
    LET w == window_data(data, k, window_min)
        kept == SelectSeq(w, LAMBDA r : ~r[col].nan)
    IN  [i \in 1..Len(kept) |-> kept[i][col].val]

\* Series.mean() as the fraction sum / count
mean(c) == [num |-> SeqSum(c), den |-> Len(c)]

\* Series.std() (ddof = 1), held as its square, the fraction
\* (n * sum of squares - sum^2) / (n * (n - 1)); NaN for a single value
std(c) ==
    IF Len(c) < 2 THEN [nan |-> TRUE, num |-> 0, den |-> 1]
    ELSE [nan |-> FALSE,
          num |-> Len(c) * SeqSum([i \in 1..Len(c) |-> c[i] * c[i]])
                    - SeqSum(c) * SeqSum(c),
          den |-> Len(c) * (Len(c) - 1)]

\* (last_val - first_val) / first_val as a fraction
change(c) == [num |-> c[Len(c)] - c[1], den |-> c[1]]

\* feature keys whose change ratio is computed whatever the first value is
FeatureKeys_change_unguarded(data, k, numeric_cols, wins) ==
    { <<col, "current", 0>> : col \in {c \in numeric_cols : ~data[k][c].nan} }
    \cup { <<cw[1], st, cw[2]>> :
             cw \in {x \in numeric_cols \X {wins[i] : i \in 1..Len(wins)} :
                        Len(col_data(data, k, x[2], x[1])) > 0},
             st \in {"mean", "std", "min", "max"} }
    \cup { <<cw[1], "change", cw[2]>> :
             cw \in {x \in numeric_cols \X {wins[i] : i \in 1..Len(wins)} :
                        Len(col_data(data, k, x[2], x[1])) >= 2} }

\* the keys of feature_row beyond ts, entity_id, entity_type are the triples
\* <<col, "current", 0>> for f"{col}_current" and <<col, stat, window>> for
\* f"{col}_{stat}_{window}m"
FeatureKeys(data, k, numeric_cols, wins) ==
    { <<col, "current", 0>> : col \in {c \in numeric_cols : ~data[k][c].nan} }
    \cup { <<cw[1], st, cw[2]>> :
             cw \in {x \in numeric_cols \X {wins[i] : i \in 1..Len(wins)} :
                        Len(col_data(data, k, x[2], x[1])) > 0},
             st \in {"mean", "std", "min", "max"} }
    \cup { <<cw[1], "change", cw[2]>> :
             cw \in {x \in numeric_cols \X {wins[i] : i \in 1..Len(wins)} :
                        /\ Len(col_data(data, k, x[2], x[1])) >= 2
                        /\ col_data(data, k, x[2], x[1])[1] # 0} }

FeatureValue(data, k, key) ==
    LET c == col_data(data, k, key[3], key[1])
    IN  CASE key[2] = "current" -> data[k][key[1]].val
          [] key[2] = "mean" -> mean(c)
          [] key[2] = "std" -> std(c)
          [] key[2] = "min" -> SeqMin(c)
          [] key[2] = "max" -> SeqMax(c)
          [] key[2] = "change" -> change(c)

feature_row(data, k, entity_id, entity_type, numeric_cols, wins) ==
    [ts |-> data[k].ts, entity_id |-> entity_id, entity_type |-> entity_type,
     feats |-> [key \in FeatureKeys(data, k, numeric_cols, wins) |->
                    FeatureValue(data, k, key)]]

\* _compute_entity_features.  With two rows of one ts, data.loc[ts, col] is a
\* Series and "if pd.notna(...)" raises ValueError.
compute_entity_features(data, entity_id, entity_type, wins) ==
    LET numeric_cols ==
            {c \in MetricColumns : \E k \in 1..Len(data) : ~data[k][c].nan}
    IN  IF /\ numeric_cols # {}
           /\ \E i, j \in 1..Len(data) : i # j /\ data[i].ts = data[j].ts
        THEN [error |-> "ValueError", rows |-> << >>]
        ELSE [error |-> "",
              rows |-> [k \in 1..Len(data) |->
                          feature_row(data, k, entity_id, entity_type,
                                      numeric_cols, wins)]]

\* compute_features: nodes in order of first appearance, then links; the
\* first error raised ends the call
compute_features(batch, wins) ==
    LET node_metrics == SelectSeq(batch, LAMBDA r : r.node_id # "")
        link_metrics == SelectSeq(batch, LAMBDA r : r.link_id # "")
        node_ids == unique([i \in 1..Len(node_metrics) |->
                               node_metrics[i].node_id])
        link_ids == unique([i \in 1..Len(link_metrics) |->
                               link_metrics[i].link_id])
        features_list ==
            [n \in 1..Len(node_ids) |->
                compute_entity_features(
                    sort_values_ts(SelectSeq(node_metrics,
                        LAMBDA r : r.node_id = node_ids[n])),
                    node_ids[n], "node", wins)]
            \o [l \in 1..Len(link_ids) |->
                compute_entity_features(
                    sort_values_ts(SelectSeq(link_metrics,
                        LAMBDA r : r.link_id = link_ids[l])),
                    link_ids[l], "link", wins)]
    IN  IF \E e \in 1..Len(features_list) : features_list[e].error # ""
        THEN [error |-> "ValueError", rows |-> << >>]
        ELSE [error |-> "",
              rows |-> Concat([e \in 1..Len(features_list) |->
                                  features_list[e].rows])]

(***************************************************************************)
(* RuleBasedModel (modeling.py).  A features dict maps the keys of a       *)
(* feature row to a number in hundredths (a change ratio to its fraction), *)
(* to NaN or to None.  Scores are in hundredths.                           *)
(***************************************************************************)
None == [none |-> TRUE]

\* settings.threshold_*: 0.85, 0.90, 0.80, 0.05 and 100.0 ms, in hundredths
threshold_cpu_high == 85
threshold_mem_high == 90
threshold_if_util_high == 80
threshold_pkt_err_high == 5
threshold_latency_high_ms == 10000

\* self.thresholds, in the order of the dict
metrics == <<"cpu", "mem", "if_util", "pkt_err", "latency_ms">>

thresholds ==
    [m \in {"cpu", "mem", "if_util", "pkt_err", "latency_ms"} |->
        CASE m = "cpu" -> threshold_cpu_high
          [] m = "mem" -> threshold_mem_high
          [] m = "if_util" -> threshold_if_util_high
          [] m = "pkt_err" -> threshold_pkt_err_high
          [] m = "latency_ms" -> threshold_latency_high_ms]

\* value is not None and not np.isnan(value)
IsNumber(v) == v # None /\ v # NaN

\* change > 0.2 for the fraction num / den
ExceedsFifth(c) ==
    \/ c.den > 0 /\ 5 * c.num > c.den
    \/ c.den < 0 /\ 5 * c.num < c.den

\* a comparison that counts a value equal to its threshold
violations_at_threshold(features) ==
    SelectSeq(metrics, LAMBDA m :
        /\ <<m, "current", 0>> \in DOMAIN features
        /\ IsNumber(features[<<m, "current", 0>>])
        /\ features[<<m, "current", 0>>].val >= thresholds[m])

\* the metrics whose _current value is above its threshold, in dict order
violations(features) ==
    SelectSeq(metrics, LAMBDA m :
        /\ <<m, "current", 0>> \in DOMAIN features
        /\ IsNumber(features[<<m, "current", 0>>])
        /\ features[<<m, "current", 0>>].val > thresholds[m])

\* a mapping that reads two violations as critical
base_risk_early_critical(num_violations) ==
    CASE num_violations = 0 -> [score |-> 10, band |-> "LOW"]
      [] num_violations = 1 -> [score |-> 40, band |-> "MEDIUM"]
      [] OTHER -> [score |-> 95, band |-> "CRITICAL"]

\* the if / elif chain on num_violations
base_risk(num_violations) ==
    CASE num_violations = 0 -> [score |-> 10, band |-> "LOW"]
      [] num_violations = 1 -> [score |-> 40, band |-> "MEDIUM"]
      [] num_violations = 2 -> [score |-> 70, band |-> "HIGH"]
      [] OTHER -> [score |-> 95, band |-> "CRITICAL"]

\* the windows of the trend loop whose cpu_change is a number above 0.2
trend_windows(features) ==
    SelectSeq(<<5, 15, 30>>, LAMBDA w :
        /\ <<"cpu", "change", w>> \in DOMAIN features
        /\ features[<<"cpu", "change", w>>] # None
        /\ features[<<"cpu", "change", w>>] # NaN
        /\ ExceedsFifth(features[<<"cpu", "change", w>>]))

Minimum(a, b) == IF a < b THEN a ELSE b

\* a predict that adds 0.1 and an explanation for every qualifying window
rule_predict_every_window(features) ==
    LET v == violations(features)
        base == base_risk(Len(v))
        t == trend_windows(features)
        explanations ==
            [k \in 1..Len(v) |-> <<v[k], "up">>]
            \o [k \in 1..Len(t) |-> <<"tendance CPU", "up", t[k]>>]
    IN  [risk_score |-> Minimum(100, base.score + 10 * Len(t)),
         risk_band |-> base.band,
         explanations |-> IF explanations = << >>
                          THEN <<<<"Metriques nominales">>>>
                          ELSE explanations]

\* a predict whose trend adjustment is 0.2
rule_predict_trend_fifth(features) ==
    LET v == violations(features)
        base == base_risk(Len(v))
        t == trend_windows(features)
        explanations ==
            [k \in 1..Len(v) |-> <<v[k], "up">>]
            \o (IF t = << >> THEN << >> ELSE <<<<"tendance CPU", "up", t[1]>>>>)
    IN  [risk_score |-> IF t = << >> THEN base.score
                        ELSE Minimum(100, base.score + 20),
         risk_band |-> base.band,
         explanations |-> IF explanations = << >>
                          THEN <<<<"Metriques nominales">>>>
                          ELSE explanations]

\* RuleBasedModel.predict: an explanation is <<metric, "up">> for a
\* violation and <<"tendance CPU", "up", window>> for the trend (the loop
\* breaks at the first window that qualifies)
rule_predict(features) ==
    LET v == violations(features)
        base == base_risk(Len(v))
        t == trend_windows(features)
        explanations ==
            [k \in 1..Len(v) |-> <<v[k], "up">>]
            \o (IF t = << >> THEN << >> ELSE <<<<"tendance CPU", "up", t[1]>>>>)
    IN  [risk_score |-> IF t = << >> THEN base.score
                        ELSE Minimum(100, base.score + 10),
         risk_band |-> base.band,
         explanations |-> IF explanations = << >>
                          THEN <<<<"Metriques nominales">>>>
                          ELSE explanations]

\* the keys of a features dict, in the order the dict is filled
FeatureKeyOrder ==
    <<<<"cpu", "current", 0>>, <<"mem", "current", 0>>,
      <<"if_util", "current", 0>>, <<"pkt_err", "current", 0>>,
      <<"latency_ms", "current", 0>>, <<"cpu", "change", 5>>,
      <<"cpu", "change", 15>>, <<"cpu", "change", 30>>>>

\* the values a key is tried with: at and just above the threshold, NaN (a
\* column the row lacks), None; change ratios 0.2, 0.21, -0.5 and NaN
FeatureValues(key) ==
    IF key[2] = "current"
    THEN {Num(thresholds[key[1]]), Num(thresholds[key[1]] + 1), NaN}
         \cup (IF key[1] = "cpu" THEN {None, Num(0)} ELSE {})
    ELSE CASE key[3] = 5 -> {[num |-> 20, den |-> 100],
                             [num |-> 21, den |-> 100], NaN, None}
           [] key[3] = 15 -> {[num |-> 0 - 50, den |-> 100],
                              [num |-> 30, den |-> 60]}
           [] key[3] = 30 -> {[num |-> 90, den |-> 10]}

(***************************************************************************)
(* MLBasedModel and ModelManager (modeling.py).  A fitted component is     *)
(* named by the number of the train call that fitted it, 0 when it is as   *)
(* constructed (unfitted; feature_columns None).                           *)
(***************************************************************************)
\* MLBasedModel.__init__
MLBasedModel ==
    [scaler |-> 0, logreg |-> 0, iforest |-> 0, feature_columns |-> 0,
     is_trained |-> FALSE]

\* the places where train can raise: StandardScaler.fit_transform (an empty
\* or non-finite matrix), IsolationForest.fit, LogisticRegression.fit (labels
\* of one class only)
TrainFailures == {"scaler", "iforest", "logreg"}

\* a train that raises is_trained before it fits
train_flag_first(m, t, raised, reset) ==
    CASE raised = "scaler" ->
            [m EXCEPT !.feature_columns = t, !.is_trained = TRUE,
                      !.scaler = IF reset THEN 0 ELSE @]
      [] raised = "iforest" ->
            [m EXCEPT !.feature_columns = t, !.scaler = t, !.is_trained = TRUE,
                      !.iforest = IF reset THEN 0 ELSE @]
      [] raised = "logreg" ->
            [m EXCEPT !.feature_columns = t, !.scaler = t, !.iforest = t,
                      !.is_trained = TRUE,
                      !.logreg = IF reset THEN 0 ELSE @]
      [] OTHER ->
            [m EXCEPT !.feature_columns = t, !.scaler = t, !.iforest = t,
                      !.logreg = t, !.is_trained = TRUE]

\* MLBasedModel.train as train call number t: the instance when train
\* returns, or when the named fit raises (the estimator that raised keeps
\* its earlier fit or, with reset, has lost it)
train(m, t, raised, reset) ==
    CASE raised = "scaler" ->
            [m EXCEPT !.feature_columns = t,
                      !.scaler = IF reset THEN 0 ELSE @]
      [] raised = "iforest" ->
            [m EXCEPT !.feature_columns = t, !.scaler = t,
                      !.iforest = IF reset THEN 0 ELSE @]
      [] raised = "logreg" ->
            [m EXCEPT !.feature_columns = t, !.scaler = t, !.iforest = t,
                      !.logreg = IF reset THEN 0 ELSE @]
      [] OTHER ->
            [m EXCEPT !.feature_columns = t, !.scaler = t, !.iforest = t,
                      !.logreg = t, !.is_trained = TRUE]

\* MLBasedModel.predict: what the call can end with.  Untrained: the
\* ValueError "Model is not trained".  Trained: a score, or, when the
\* components are not those of one fit, whatever scaler.transform,
\* predict_proba and score_samples make of them (a score or their error).
predict_outcomes(m) ==
    IF ~m.is_trained THEN {"not_trained"}
    ELSE IF 0 \in {m.scaler, m.logreg, m.iforest} THEN {"not_fitted"}
    ELSE IF /\ m.scaler = m.feature_columns
            /\ m.logreg = m.scaler
            /\ m.iforest = m.scaler
         THEN {"score"}
         ELSE {"score", "shape_error"}

\* the (p_lr, p_if) pairs predict is followed through, in hundredths: p_lr is
\* predict_proba's probability of class 1, in [0, 1]; p_if is
\* 1 / (1 + exp(5 * score_samples)), strictly between 0 and 1
Probabilities ==
    {<<0, 1>>, <<49, 1>>, <<10, 60>>, <<59, 61>>, <<60, 60>>, <<94, 70>>,
     <<95, 70>>, <<100, 99>>}

\* risk_score = 0.6 * risk_score_lr + 0.4 * risk_score_if, in ten-thousandths
combine(p_lr, p_if) == 60 * p_lr + 40 * p_if

\* a banding that takes each threshold into the lower band
ml_band_inclusive(risk_score) ==
    IF risk_score <= 3000 THEN "LOW"
    ELSE IF risk_score <= 6000 THEN "MEDIUM"
    ELSE IF risk_score <= 8500 THEN "HIGH"
    ELSE "CRITICAL"

\* the band of a score in ten-thousandths: the if / elif chain of predict
ml_band(risk_score) ==
    IF risk_score < 3000 THEN "LOW"
    ELSE IF risk_score < 6000 THEN "MEDIUM"
    ELSE IF risk_score < 8500 THEN "HIGH"
    ELSE "CRITICAL"

\* what predict can return: nothing when it raises, else the one
\* (risk_score, risk_band) computed from some p = (p_lr, p_if), here with
\* the feature_columns, scaler, logreg and iforest it was computed with
ml_return(m, outcome) ==
    IF outcome # "score" THEN {<< >>}
    ELSE {<<[p_lr |-> p[1], p_if |-> p[2],
             risk_score |-> combine(p[1], p[2]),
             risk_band |-> ml_band(combine(p[1], p[2])),
             used |-> <<m.feature_columns, m.scaler, m.logreg, m.iforest>>]>> :
            p \in Probabilities}

\* MLBasedModel.save: the dict joblib.dump writes
model_data(m) ==
    [scaler |-> m.scaler, logreg |-> m.logreg, iforest |-> m.iforest,
     feature_columns |-> m.feature_columns, is_trained |-> m.is_trained]

\* MLBasedModel.load: cls() with the five fields of the file
load(data) ==
    [MLBasedModel EXCEPT !.scaler = data.scaler, !.logreg = data.logreg,
                         !.iforest = data.iforest,
                         !.feature_columns = data.feature_columns,
                         !.is_trained = data.is_trained]

\* the columns a model is trained on, in the order of train_df
TrainColumns ==
    <<<<"cpu", "current", 0>>, <<"mem", "current", 0>>,
      <<"cpu", "mean", 5>>, <<"latency_ms", "current", 0>>,
      <<"pkt_err", "current", 0>>, <<"cpu", "change", 5>>>>

\* the coefficients a fit comes to: positive, negative, zero, and two of
\* one absolute value
Coefficients == {0 - 2, 0, 1, 2}

\* the features dicts handed to predict: every column of columns absent,
\* None, NaN or a number
FeatureDicts(columns) ==
    LET names == {columns[k] : k \in 1..Len(columns)}
    IN  UNION { [present -> {None, NaN, Num(50)}] : present \in SUBSET names }

abs(x) == IF x < 0 THEN 0 - x ELSE x

\* feature_importance[:n] after a sort on the coefficient itself
top_signed(coef, n) ==
    LET rank(i) ==
            Cardinality({j \in 1..Len(coef) :
                \/ coef[j] > coef[i]
                \/ coef[j] = coef[i] /\ j < i}) + 1
        sorted == [p \in 1..Len(coef) |->
                      CHOOSE i \in 1..Len(coef) : rank(i) = p]
    IN  SubSeq(sorted, 1, Minimum(n, Len(coef)))

\* feature_importance.sort(key=abs(coef), reverse=True)[:n], as positions of
\* feature_columns: list.sort is stable, also with reverse=True
top(coef, n) ==
    LET rank(i) ==
            Cardinality({j \in 1..Len(coef) :
                \/ abs(coef[j]) > abs(coef[i])
                \/ abs(coef[j]) = abs(coef[i]) /\ j < i}) + 1
        sorted == [p \in 1..Len(coef) |->
                      CHOOSE i \in 1..Len(coef) : rank(i) = p]
    IN  SubSeq(sorted, 1, Minimum(n, Len(coef)))

\* MLBasedModel._get_top_features of a fitted logreg (coef_ exists); an
\* explanation f"{feat_name} {direction}" is <<feat_name, "up" or "down">>
get_top_features(columns, coef, features, n) ==
    LET kept == SelectSeq(top(coef, n),
                    LAMBDA i : /\ columns[i] \in DOMAIN features
                               /\ features[columns[i]] # None
                               /\ features[columns[i]] # NaN)
        explanations ==
            [k \in 1..Len(kept) |->
                <<columns[kept[k]],
                  IF coef[kept[k]] > 0 THEN "up" ELSE "down">>]
    IN  IF explanations = << >> THEN <<<<"Facteurs multiples">>>>
        ELSE explanations

\* request.client.host of the callers, "unknown" for one without an address
Clients == {"10.0.0.1", "unknown"}

\* the limit_per_min values a middleware is built with
Limits == {0 - 1, 0, 1, 2}

\* [t for t in self.requests[client_ip] if current_time - t < 60]
recent(times, now) == SelectSeq(times, LAMBDA t : now - t < 60)

\* dispatch that also appends the time of a request it rejects
dispatch_record_rejected(limit, reqs, client_ip, now) ==
    IF limit <= 0
    THEN [status |-> "call_next", requests |-> reqs]
    ELSE LET kept == recent(reqs[client_ip], now)
         IN  IF Len(kept) >= limit
             THEN [status |-> "429",
                   requests |->
                       [reqs EXCEPT ![client_ip] = Append(kept, now)]]
             ELSE [status |-> "call_next",
                   requests |->
                       [reqs EXCEPT ![client_ip] = Append(kept, now)]]

\* RateLimitMiddleware.dispatch: the response it gives ("call_next" when the
\* request is passed on) and self.requests after it
dispatch(limit, reqs, client_ip, now) ==
    IF limit <= 0
    THEN [status |-> "call_next", requests |-> reqs]
    ELSE LET kept == recent(reqs[client_ip], now)
         IN  IF Len(kept) >= limit
             THEN [status |-> "429",
                   requests |-> [reqs EXCEPT ![client_ip] = kept]]
             ELSE [status |-> "call_next",
                   requests |->
                       [reqs EXCEPT ![client_ip] = Append(kept, now)]]

\* the entity ids risk scores are computed for: nodes, links and one that
\* is neither
EntityIds == {"N1", "N2", "L1", "L2", "FW1"}

\* risk scores in hundredths: under the load threshold, at and just above
\* the high-risk threshold
RiskScores == {20, 60, 61}

\* entity_id.startswith(prefix)
startswith(entity_id, prefix) ==
    prefix = (CASE entity_id \in {"N1", "N2", "N3"} -> "N"
                [] entity_id \in {"L1", "L2", "L3"} -> "L"
                [] OTHER -> "F")

\* the topologies generate_plan is called with: one where L1 (N1 -> N2) has
\* the bypass L2, L3 and no other link has one, and one without links
Topologies ==
    {[nodes |-> <<[id |-> "N1"], [id |-> "N2"], [id |-> "N3"]>>,
      links |-> <<[id |-> "L1", src |-> "N1", dst |-> "N2"],
                  [id |-> "L2", src |-> "N1", dst |-> "N3"],
                  [id |-> "L3", src |-> "N3", dst |-> "N2"]>>],
     [nodes |-> <<[id |-> "N1"]>>, links |-> << >>]}

\* the objectives lists of the requests
ObjectiveLists ==
    {<<"minimize_risk">>, <<"preserve_critical_flows">>, <<"balance_load">>,
     <<"minimize_latency">>,
     <<"minimize_risk", "preserve_critical_flows", "balance_load">>}

\* the contexts of the requests; a flow id is the sequence of the pieces of
\* its string
Contexts ==
    {[impacted |-> << >>, critical_flows |-> << >>],
     [impacted |-> <<"N1", "L1">>,
      critical_flows |-> <<<<"FTS-CRIT-12">>, <<"FTS-CRIT-13">>>>]}

\* the requests generate_plan is called with; the constraints are not read
PlanRequests ==
    {[objectives |-> o, context |-> c] : o \in ObjectiveLists, c \in Contexts}

\* x in list
contains(list, x) == \E k \in 1..Len(list) : list[k] = x

\* PlanAction(type=..., ...), the fields not given are None
PlanAction(type, flow, via, node, delta_mbps) ==
    [type |-> type, flow |-> flow, via |-> via, node |-> node,
     delta_mbps |-> delta_mbps]

\* the entities whose score is at or above 0.6
high_risk_entities_from_threshold(risk_scores) ==
    LET hs == SelectSeq(risk_scores, LAMBDA e : e.score >= 60)
    IN  [k \in 1..Len(hs) |-> hs[k].id]

\* [entity_id for entity_id, score in risk_scores.items() if score > 0.6]
high_risk_entities(risk_scores) ==
    LET hs == SelectSeq(risk_scores, LAMBDA e : e.score > 60)
    IN  [k \in 1..Len(hs) |-> hs[k].id]

\* risk_scores.get(node_id, 0)
get_score(risk_scores, node_id) ==
    LET ks == {k \in 1..Len(risk_scores) : risk_scores[k].id = node_id}
    IN  IF ks = {} THEN 0 ELSE risk_scores[CHOOSE k \in ks : TRUE].score

\* PlanningService._find_link: the first link of that id, or None
find_link(link_id, topology) ==
    LET ks == {k \in 1..Len(topology.links) : topology.links[k].id = link_id}
    IN  IF ks = {} THEN None
        ELSE topology.links[CHOOSE k \in ks : \A m \in ks : k <= m]

\* PlanningService._find_alternative_path: the first other link leaving
\* link's source, with the first link from where it ends to link's
\* destination, or None
find_alternative_path(link, topology) ==
    LET links == topology.links
        second(i) ==
            {j \in 1..Len(links) :
                links[j].src = links[i].dst /\ links[j].dst = link.dst}
        first ==
            {i \in 1..Len(links) :
                /\ links[i].id # link.id
                /\ links[i].src = link.src
                /\ second(i) # {}}
    IN  IF first = {} THEN None
        ELSE LET i == CHOOSE a \in first : \A b \in first : a <= b
                 j == CHOOSE a \in second(i) : \A b \in second(i) : a <= b
             IN  <<links[i].id, links[j].id>>

\* the bypass of the link entity_id, None when the topology has no such
\* link or the link has no bypass
alt_path(entity_id, topology) ==
    LET link == find_link(entity_id, topology)
    IN  IF link = None THEN None ELSE find_alternative_path(link, topology)

\* PlanningService._handle_minimize_risk
handle_minimize_risk(high, request, topology) ==
    LET loop[k \in 0..Len(high)] ==
            IF k = 0 THEN [actions |-> << >>, rationale |-> << >>]
            ELSE LET entity_id == high[k]
                     sofar == loop[k - 1]
                 IN  IF startswith(entity_id, "N")
                     THEN IF contains(request.context.impacted, entity_id)
                          THEN [actions |-> Append(sofar.actions,
                                    PlanAction("ISOLATE", None, None,
                                               entity_id, None)),
                                rationale |-> Append(sofar.rationale,
                                    <<"Isolate high-risk node ", entity_id>>)]
                          ELSE sofar
                     ELSE IF /\ startswith(entity_id, "L")
                             /\ alt_path(entity_id, topology) # None
                          THEN [actions |-> Append(sofar.actions,
                                    PlanAction("REROUTE",
                                               <<"FLOW_", entity_id>>,
                                               alt_path(entity_id, topology),
                                               None, None)),
                                rationale |-> Append(sofar.rationale,
                                    <<"Reroute traffic from congested link ",
                                      entity_id>>)]
                          ELSE sofar
    IN  loop[Len(high)]

\* PlanningService._handle_preserve_critical_flows
handle_preserve_critical_flows(request, topology, high) ==
    LET flows == request.context.critical_flows
        reroutable ==
            {k \in 1..Len(high) :
                /\ startswith(high[k], "L")
                /\ alt_path(high[k], topology) # None}
        loop[f \in 0..Len(flows)] ==
            IF f = 0 THEN [actions |-> << >>, rationale |-> << >>]
            ELSE LET flow_id == flows[f]
                     sofar == loop[f - 1]
                 IN  IF reroutable = {} THEN sofar
                     ELSE LET k == CHOOSE a \in reroutable :
                                       \A b \in reroutable : a <= b
                          IN  [actions |-> Append(sofar.actions,
                                   PlanAction("REROUTE", flow_id,
                                              alt_path(high[k], topology),
                                              None, None)),
                               rationale |-> Append(sofar.rationale,
                                   <<"Protect critical flow ">> \o flow_id
                                       \o <<" by rerouting">>)]
    IN  loop[Len(flows)]

\* PlanningService._handle_balance_load
handle_balance_load(topology, risk_scores) ==
    LET nodes == topology.nodes
        loop[k \in 0..Len(nodes)] ==
            IF k = 0 THEN [actions |-> << >>, rationale |-> << >>]
            ELSE LET node_id == nodes[k].id
                     sofar == loop[k - 1]
                 IN  IF get_score(risk_scores, node_id) < 30
                     THEN [actions |-> Append(sofar.actions,
                               PlanAction("SHIFT_RESERVE", None, None,
                                          node_id, 100)),
                           rationale |-> Append(sofar.rationale,
                               <<"Increase reserve capacity on underutilized node ",
                                 node_id>>)]
                     ELSE sofar
    IN  loop[Len(nodes)]

\* the number of actions of that type
count_type(actions, type) ==
    Cardinality({k \in 1..Len(actions) : actions[k].type = type})

\* PlanningService._estimate_gain; risk_delta in hundredths
estimate_gain(actions, high, risk_scores) ==
    [risk_delta |-> 0 - 15 * count_type(actions, "REROUTE")
                      - 10 * count_type(actions, "ISOLATE"),
     sla_violations_avoided |-> Len(high) \div 2]

\* PlanningService.generate_plan
generate_plan(request, topology, risk_scores) ==
    LET high == high_risk_entities(risk_scores)
        nothing == [actions |-> << >>, rationale |-> << >>]
        risk_actions ==
            IF contains(request.objectives, "minimize_risk")
            THEN handle_minimize_risk(high, request, topology)
            ELSE nothing
        flow_actions ==
            IF contains(request.objectives, "preserve_critical_flows")
            THEN handle_preserve_critical_flows(request, topology, high)
            ELSE nothing
        balance_actions ==
            IF contains(request.objectives, "balance_load")
            THEN handle_balance_load(topology, risk_scores)
            ELSE nothing
        actions == risk_actions.actions \o flow_actions.actions
                       \o balance_actions.actions
        rationale == risk_actions.rationale \o flow_actions.rationale
                         \o balance_actions.rationale
    IN  [actions |-> actions, rationale |-> rationale,
         estimated_gain |-> estimate_gain(actions, high, risk_scores)]

\* the mode strings get_model is followed through: the three values of
\* Settings.model_mode and three that are none of them
Modes == {"rule", "ml", "hybrid", "", "RULE", "auto"}

\* a get_model that falls back to the rule model
get_model_default_rule(mode) ==
    IF mode = "ml" THEN [error |-> "", class |-> "MLBasedModel"]
    ELSE [error |-> "", class |-> "RuleBasedModel"]

\* ModelManager.get_model: the class of the model returned, or the error
get_model(mode) ==
    IF mode = "rule" THEN [error |-> "", class |-> "RuleBasedModel"]
    ELSE IF mode = "ml" THEN [error |-> "", class |-> "MLBasedModel"]
    ELSE [error |-> "ValueError", class |-> "none"]

(***************************************************************************)
(* The /v1/predict handler (routers/predict.py).  A target is a            *)
(* PredictionTarget, "" standing for a field that is None; a response is   *)
(* its HTTP status and, for 200, the predictions, scores in                *)
(* ten-thousandths.                                                        *)
(***************************************************************************)
\* the metric batches an ingest is followed through: one row per entity and
\* minute, as DataSynthesizer.generate_metrics makes them
IngestBatches ==
    { <<NodeSample("N1", 0, Num(50)), NodeSample("N1", 5, Num(90)),
        NodeSample("N2", 5, Num(70))>>,
      <<NodeSample("N1", 0, Num(50)), NodeSample("N2", 5, Num(70)),
        LinkSample("L1", 10, Num(1200))>>,
      <<NodeSample("N1", 0, Num(50)),
        [NodeSample("N1", 5, Num(90)) EXCEPT !.latency_ms = Num(20000)],
        [LinkSample("L1", 5, Num(20000)) EXCEPT !.cpu = Num(90)]>> }

\* the targets a request is made of: a node, a link (as a target with both
\* fields: the node it names is not in the batch), a target with neither
TargetInputs ==
    { [node_id |-> "N1", link_id |-> ""], [node_id |-> "", link_id |-> "L1"],
      [node_id |-> "N9", link_id |-> "L1"], [node_id |-> "", link_id |-> ""] }

\* the (p_lr, p_if) pairs the statistical model answers a request with
RequestProbabilities == {<<0, 1>>, <<95, 70>>}

\* the horizon_min of the requests made (the schema admits 1 to 1440; 30 is
\* its example)
Horizons == {30}

\* an eta_failure_min that is set
Minutes(n) == [min |-> n]

\* an ETA given from 0.7 on
eta_failure_min_from_threshold(risk_score, horizon_min) ==
    IF risk_score >= 7000
    THEN Minutes(((10000 - risk_score) * horizon_min) \div 10000)
    ELSE None

\* eta_failure_min = None; if risk_score > 0.7:
\* eta_failure_min = int((1 - risk_score) * request.horizon_min), for a score
\* in ten-thousandths
eta_failure_min(risk_score, horizon_min) ==
    IF risk_score > 7000
    THEN Minutes(((10000 - risk_score) * horizon_min) \div 10000)
    ELSE None

\* target.node_id or target.link_id
target_id(target) ==
    IF target.node_id # "" THEN target.node_id ELSE target.link_id

\* the feature columns of features_df: the union of the rows' keys
feature_columns(rows) == UNION {DOMAIN rows[k].feats : k \in 1..Len(rows)}

\* target_features.iloc[-1].to_dict(): every column of the frame, NaN where
\* the row has no value
to_dict(row, columns) ==
    [key \in columns |->
        IF key \notin DOMAIN row.feats THEN NaN
        ELSE IF key[2] = "current" THEN Num(row.feats[key])
        ELSE row.feats[key]]

\* round(risk_score, 3) of a score in ten-thousandths
round3(risk_score) == ((risk_score + 5) \div 10) * 10

\* the placeholder of a target without feature rows
NoDataAvailable(id) ==
    [error |-> IF id = "" THEN "ValidationError" ELSE "", target |-> id,
     risk_score |-> 0, risk_band |-> "LOW", eta_failure_min |-> None,
     explanations |-> <<<<"No data available">>>>]

\* one turn of the loop over request.targets: the PredictionResult appended,
\* or the error raised (model.predict's, or PredictionResult's for a target
\* that is None); ml is the MLBasedModel instance of mode "ml", p the
\* probabilities it comes to
predict_target(target, rows, mode, ml, p, horizon_min) ==
    LET id == target_id(target)
        target_features == SelectSeq(rows, LAMBDA r : r.entity_id = id)
        latest_features ==
            to_dict(target_features[Len(target_features)],
                    feature_columns(rows))
        rule == rule_predict(latest_features)
    IN  IF rows = << >> THEN [error |-> "KeyError"]
        ELSE IF target_features = << >> THEN NoDataAvailable(id)
        ELSE IF mode = "rule"
        THEN [error |-> "", target |-> id,
              risk_score |-> round3(100 * rule.risk_score),
              risk_band |-> rule.risk_band,
              eta_failure_min |->
                  eta_failure_min(100 * rule.risk_score, horizon_min),
              explanations |-> rule.explanations]
        ELSE IF ~ml.is_trained THEN [error |-> "ValueError"]
        ELSE [error |-> "", target |-> id,
              risk_score |-> round3(combine(p[1], p[2])),
              risk_band |-> ml_band(combine(p[1], p[2])),
              eta_failure_min |->
                  eta_failure_min(combine(p[1], p[2]), horizon_min),
              explanations |-> <<<<"ML prediction">>>>]

\* the loop over request.targets; feats is what compute_features returned
predict_targets(feats, mode, file, targets, ps, horizon_min) ==
    [k \in 1..Len(targets) |->
        predict_target(targets[k], feats.rows, mode,
                       IF file # None THEN load(file) ELSE MLBasedModel,
                       ps[k], horizon_min)]

\* whether anything but FileNotFoundError is raised on the way; results is
\* what the loop over the targets comes to
raises(feats, mode, results) ==
    \/ feats.error # ""
    \/ get_model(mode).error # ""
    \/ \E k \in 1..Len(results) : results[k].error # ""

\* a handler that answers missing data like any other error
predict_handler_500(topology, batch, feats, mode, file, targets, ps, horizon_min) ==
    LET results ==
            predict_targets(feats, mode, file, targets, ps, horizon_min)
    IN  IF ~topology \/ batch = None
        THEN [status |-> 500, predictions |-> << >>]
        ELSE IF raises(feats, mode, results)
        THEN [status |-> 500, predictions |-> << >>]
        ELSE [status |-> 200, predictions |-> results]

\* the handler: FileNotFoundError of load_topology / load_metrics is
\* answered 404, anything else raised 500, else 200 with one
\* PredictionResult per target; feats is store.compute_features(metrics_df)
\* of the batch on file
predict_handler(topology, batch, feats, mode, file, targets, ps, horizon_min) ==
    LET results ==
            predict_targets(feats, mode, file, targets, ps, horizon_min)
    IN  IF ~topology \/ batch = None
        THEN [status |-> 404, predictions |-> << >>]
        ELSE IF raises(feats, mode, results)
        THEN [status |-> 500, predictions |-> << >>]
        ELSE [status |-> 200, predictions |-> results]

(***************************************************************************)
(* Operations                                                              *)
(***************************************************************************)
PipeIdle ==
    /\ df = << >>
    /\ pipe_pc = "collect"
    /\ all_anomalies = << >>
    /\ df_final = << >>

TaxonomyIdle ==
    /\ bug_types = << >>
    /\ enriched = << >>

FeatIdle ==
    /\ metrics_df = << >>
    /\ feat_pc = "load"
    /\ features_df = [error |-> "", rows |-> << >>]

RuleIdle ==
    /\ rule_features = << >>
    /\ rule_pc = "build"
    /\ rule_result = [risk_score |-> 0, risk_band |-> "", explanations |-> << >>]

\* the provenance of an instance from which predict may return a score
Trained == {"trained", "loaded_trained"}

\* no predict call has just been made
NoResult ==
    [model |-> 0, outcome |-> "none", provenance |-> "none",
     returned |-> << >>]

MLIdle ==
    /\ models = << >>
    /\ provenance = << >>
    /\ artifact = None
    /\ artifact_provenance = "none"
    /\ ml_model = 0
    /\ train_calls = 0
    /\ ml_result = NoResult

\* no train call is in progress
NoTrain == [model |-> 0, t |-> 0, at |-> "idle"]

ThreadIdle == train_pc = NoTrain

\* no get_model call has just been made
NoSelection == [mode |-> "none", error |-> "", class |-> "none", model |-> 0]

\* ModelManager.__init__, no rule.joblib on disk
SelectorIdle ==
    /\ rule_model = "None"
    /\ rule_file = FALSE
    /\ selected = NoSelection

\* no request has just been served
NoResponse ==
    [status |-> 0, horizon_min |-> 0, targets |-> << >>,
     predictions |-> << >>]

\* the application as started: no data ingested, model_mode at its default
ApiIdle ==
    /\ topology_file = FALSE
    /\ metrics_file = None
    /\ file_features = [error |-> "FileNotFoundError", rows |-> << >>]
    /\ ingest_pc = "idle"
    /\ ingested = FALSE
    /\ model_mode = "rule"
    /\ response = NoResponse

ExplainIdle ==
    /\ fit_columns = << >>
    /\ fit_coef = << >>
    /\ top_features = << >>
    /\ top_result = << >>

DetIdle ==
    /\ det_input = << >>
    /\ det_df = << >>
    /\ det_ran = << >>
    /\ det_out = << >>
    /\ det_pc = "pick"
    /\ det_final = << >>

\* RateLimitMiddleware(app) with the default limit, no request seen
RateIdle ==
    /\ limit_per_min = 60
    /\ requests = [c \in Clients |-> << >>]
    /\ current_time = 0
    /\ rate_log = << >>

\* no generate_plan call has just been made
NoPlan == [actions |-> << >>, rationale |-> << >>, estimated_gain |-> None]

\* PlanningService.__init__, no risk score computed yet
PlanIdle ==
    /\ plan_scores = << >>
    /\ plan_request = None
    /\ plan_topology = None
    /\ plan_response = NoPlan

\* every component as constructed, before any call
Init ==
    /\ PipeIdle /\ TaxonomyIdle /\ FeatIdle /\ RuleIdle /\ MLIdle
    /\ ThreadIdle /\ SelectorIdle /\ ApiIdle /\ DetIdle /\ ExplainIdle
    /\ RateIdle /\ PlanIdle

\* pd.read_csv delivers one more row of the batch
ReadRow(r) ==
    /\ pipe_pc = "collect"
    /\ Len(df) < MaxRows
    /\ df' = Append(df, r)
    /\ UNCHANGED <<pipe_pc, all_anomalies, df_final>>
    /\ UNCHANGED notPipe

\* df_classified = pipeline.run(df_raw)
RunPipeline ==
    /\ pipe_pc = "collect"
    /\ all_anomalies' = Detect(df)
    /\ df_final' = run(df)
    /\ pipe_pc' = "done"
    /\ UNCHANGED df
    /\ UNCHANGED notPipe


NextPipe ==
    \/ \E r \in Rows : ReadRow(r)
    \/ RunPipeline

SpecPipe == Init /\ [][NextPipe]_vars


\* the bug_type values enrich is tried on: the registered ones and others
BugTypeInputs == DOMAIN CLASSIFICATION \cup {"unknown_bug", "DDoS", ""}

\* one more row of a DataFrame of findings built by a caller of enrich
AddBugType(b) ==
    /\ enriched = << >>
    /\ Len(bug_types) < MaxEnrich
    /\ bug_types' = Append(bug_types, b)
    /\ UNCHANGED enriched
    /\ UNCHANGED notTax

\* AnomalyClassifier.enrich(df)
Enrich ==
    /\ enriched = << >>
    /\ bug_types # << >>
    /\ enriched' = EnrichBugTypes(bug_types)
    /\ UNCHANGED bug_types
    /\ UNCHANGED notTax


NextTaxonomy ==
    \/ \E b \in BugTypeInputs : AddBugType(b)
    \/ Enrich

SpecTaxonomy == Init /\ [][NextTaxonomy]_vars

\* one more sample of the metric batch
LoadSample(m) ==
    /\ feat_pc = "load"
    /\ Len(metrics_df) < MaxSamples
    /\ metrics_df' = Append(metrics_df, m)
    /\ UNCHANGED <<feat_pc, features_df>>
    /\ UNCHANGED notFeat

\* features_df = store.compute_features(metrics_df)
ComputeFeatures ==
    /\ feat_pc = "load"
    /\ features_df' = compute_features(metrics_df, windows)
    /\ feat_pc' = "done"
    /\ UNCHANGED metrics_df
    /\ UNCHANGED notFeat


NextFeat ==
    \/ \E m \in Samples : LoadSample(m)
    \/ ComputeFeatures

SpecFeat == Init /\ [][NextFeat]_vars

\* latest_features gets one more key
SetFeature(i, v) ==
    /\ rule_pc = "build"
    /\ \A j \in i..Len(FeatureKeyOrder) :
           FeatureKeyOrder[j] \notin DOMAIN rule_features
    /\ rule_features' = rule_features @@ (FeatureKeyOrder[i] :> v)
    /\ UNCHANGED <<rule_pc, rule_result>>
    /\ UNCHANGED notRule

\* risk_score, risk_band, explanations = model.predict(latest_features)
RulePredict ==
    /\ rule_pc = "build"
    /\ rule_result' = rule_predict(rule_features)
    /\ rule_pc' = "done"
    /\ UNCHANGED rule_features
    /\ UNCHANGED notRule

NextRule ==
    \/ \E i \in 1..Len(FeatureKeyOrder) :
          \E v \in FeatureValues(FeatureKeyOrder[i]) : SetFeature(i, v)
    \/ RulePredict

SpecRule == Init /\ [][NextRule]_vars

\* model = MLBasedModel()
Construct ==
    /\ Len(models) < MaxModels
    /\ models' = Append(models, MLBasedModel)
    /\ provenance' = Append(provenance, "new")
    /\ ml_result' = NoResult
    /\ UNCHANGED <<artifact, artifact_provenance, ml_model, train_calls>>
    /\ UNCHANGED notML

\* models[i].train(train_df, labels), returning or raising
Train(i, raised, reset) ==
    /\ train_calls < MaxTrainCalls
    /\ train_calls' = train_calls + 1
    /\ models' = [models EXCEPT ![i] = train(@, train_calls + 1, raised, reset)]
    /\ provenance' = [provenance EXCEPT
                        ![i] = IF raised = "no" THEN "trained" ELSE @]
    /\ ml_result' = NoResult
    /\ UNCHANGED <<artifact, artifact_provenance, ml_model>>
    /\ UNCHANGED notML

\* models[i].save(models_dir / "ml.joblib")
Save(i) ==
    /\ artifact' = model_data(models[i])
    /\ artifact_provenance' =
         IF provenance[i] \in Trained THEN "trained" ELSE "untrained"
    /\ ml_result' = NoResult
    /\ UNCHANGED <<models, provenance, ml_model, train_calls>>
    /\ UNCHANGED notML

\* MLBasedModel.load(models_dir / "ml.joblib")
Load ==
    /\ artifact # None
    /\ Len(models) < MaxModels
    /\ models' = Append(models, load(artifact))
    /\ provenance' = Append(provenance,
                            IF artifact_provenance = "trained"
                            THEN "loaded_trained" ELSE "loaded_untrained")
    /\ ml_result' = NoResult
    /\ UNCHANGED <<artifact, artifact_provenance, ml_model, train_calls>>
    /\ UNCHANGED notML

\* ModelManager().get_model("ml") of a manager whose ml_model is None:
\* _load_or_create_ml_model loads the file if it exists, else constructs
GetModel ==
    /\ ml_model = 0
    /\ Len(models) < MaxModels
    /\ models' = Append(models, IF artifact # None THEN load(artifact)
                                ELSE MLBasedModel)
    /\ provenance' = Append(provenance,
                            IF artifact = None THEN "new"
                            ELSE IF artifact_provenance = "trained"
                                 THEN "loaded_trained"
                                 ELSE "loaded_untrained")
    /\ ml_model' = Len(models) + 1
    /\ ml_result' = NoResult
    /\ UNCHANGED <<artifact, artifact_provenance, train_calls>>
    /\ UNCHANGED notML

\* models[i].predict(features)
Predict(i) ==
    /\ \E o \in predict_outcomes(models[i]) :
         \E r \in ml_return(models[i], o) :
           ml_result' = [model |-> i, outcome |-> o,
                         provenance |-> provenance[i], returned |-> r]
    /\ UNCHANGED <<models, provenance, artifact, artifact_provenance,
                   ml_model, train_calls>>
    /\ UNCHANGED notML

NextML ==
    \/ Construct
    \/ \E i \in 1..Len(models) :
         \E raised \in TrainFailures \cup {"no"} :
           \E reset \in BOOLEAN : Train(i, raised, reset)
    \/ \E i \in 1..Len(models) : Save(i)
    \/ Load
    \/ GetModel
    \/ \E i \in 1..Len(models) : Predict(i)

SpecML == Init /\ [][NextML]_vars

(***************************************************************************)
(* MLBasedModel.train statement by statement, as another thread sees it:   *)
(* train holds no lock and assigns the instance's fields one after the     *)
(* other, so a predict call of another thread can run between any two.     *)
(* Every fit succeeds here.                                                *)
(***************************************************************************)
\* the statements of train, in order, after feature_columns is assigned
TrainSteps == <<"scaler", "iforest", "logreg", "is_trained">>

\* the instance after the statement `at` of train call t
train_step(m, t, at) ==
    CASE at = "scaler" -> [m EXCEPT !.scaler = t]
      [] at = "iforest" -> [m EXCEPT !.iforest = t]
      [] at = "logreg" -> [m EXCEPT !.logreg = t]
      [] OTHER -> [m EXCEPT !.is_trained = TRUE]

\* the statement after `at`, "idle" after the last
next_step(at) ==
    IF \E k \in 1..(Len(TrainSteps) - 1) : TrainSteps[k] = at
    THEN TrainSteps[(CHOOSE k \in 1..(Len(TrainSteps) - 1) :
                        TrainSteps[k] = at) + 1]
    ELSE "idle"

\* models[i].train(...) starts: X_train is prepared and feature_columns set
TrainBegin(i) ==
    /\ train_pc = NoTrain
    /\ train_calls < MaxTrainCalls
    /\ train_calls' = train_calls + 1
    /\ models' = [models EXCEPT ![i].feature_columns = train_calls + 1]
    /\ train_pc' = [model |-> i, t |-> train_calls + 1, at |-> TrainSteps[1]]
    /\ ml_result' = NoResult
    /\ UNCHANGED <<provenance, artifact, artifact_provenance, ml_model>>
    /\ UNCHANGED notThreads

\* the train call in progress executes its next statement; the last one,
\* is_trained = True, ends it
TrainStep ==
    /\ train_pc # NoTrain
    /\ models' = [models EXCEPT
                    ![train_pc.model] = train_step(@, train_pc.t, train_pc.at)]
    /\ train_pc' = IF next_step(train_pc.at) = "idle" THEN NoTrain
                   ELSE [train_pc EXCEPT !.at = next_step(train_pc.at)]
    /\ provenance' = IF next_step(train_pc.at) = "idle"
                     THEN [provenance EXCEPT ![train_pc.model] = "trained"]
                     ELSE provenance
    /\ ml_result' = NoResult
    /\ UNCHANGED <<artifact, artifact_provenance, ml_model, train_calls>>
    /\ UNCHANGED notThreads

NextThreads ==
    \/ Construct
    \/ \E i \in 1..Len(models) : TrainBegin(i)
    \/ TrainStep
    \/ \E i \in 1..Len(models) : Save(i)
    \/ Load
    \/ GetModel
    \/ \E i \in 1..Len(models) : Predict(i)

SpecThreads == Init /\ [][NextThreads]_vars

\* model_manager = ModelManager(): both slots None
NewManager ==
    /\ rule_model' = "None"
    /\ ml_model' = 0
    /\ selected' = NoSelection
    /\ ml_result' = NoResult
    /\ UNCHANGED <<rule_file, models, provenance, artifact,
                   artifact_provenance, train_calls>>
    /\ UNCHANGED notSel

\* model_manager.get_model(mode): the slot of the mode is filled on first
\* use (from the file if there is one), the model in it is returned; any
\* other mode raises and touches nothing
GetModelFor(mode) ==
    /\ mode = "ml" /\ ml_model = 0 => Len(models) < MaxModels
    /\ rule_model' =
         IF get_model(mode).class = "RuleBasedModel" /\ rule_model = "None"
         THEN (IF rule_file THEN "loaded" ELSE "new")
         ELSE rule_model
    /\ IF get_model(mode).class = "MLBasedModel" /\ ml_model = 0
       THEN /\ models' = Append(models, IF artifact # None
                                        THEN load(artifact)
                                        ELSE MLBasedModel)
            /\ provenance' =
                 Append(provenance,
                        IF artifact = None THEN "new"
                        ELSE IF artifact_provenance = "trained"
                             THEN "loaded_trained"
                             ELSE "loaded_untrained")
            /\ ml_model' = Len(models) + 1
       ELSE UNCHANGED <<models, provenance, ml_model>>
    /\ selected' =
         [mode |-> mode, error |-> get_model(mode).error,
          class |-> get_model(mode).class,
          model |-> IF get_model(mode).class = "MLBasedModel"
                    THEN ml_model' ELSE 0]
    /\ ml_result' = NoResult
    /\ UNCHANGED <<rule_file, artifact, artifact_provenance, train_calls>>
    /\ UNCHANGED notSel

\* model_manager.save_models(): every filled slot is written to its file
SaveModels ==
    /\ rule_model # "None" \/ ml_model # 0
    /\ rule_file' = (rule_file \/ rule_model # "None")
    /\ artifact' = IF ml_model # 0 THEN model_data(models[ml_model])
                   ELSE artifact
    /\ artifact_provenance' =
         IF ml_model = 0 THEN artifact_provenance
         ELSE IF provenance[ml_model] \in Trained THEN "trained"
              ELSE "untrained"
    /\ selected' = NoSelection
    /\ ml_result' = NoResult
    /\ UNCHANGED <<rule_model, models, provenance, ml_model, train_calls>>
    /\ UNCHANGED notSel

NextSelector ==
    \/ NewManager
    \/ \E mode \in Modes : GetModelFor(mode)
    \/ SaveModels

SpecSelector == Init /\ [][NextSelector]_vars

\* the application is started with MODEL_MODE = mode
Configure(mode) ==
    /\ model_mode' = mode
    /\ response' = NoResponse
    /\ UNCHANGED <<topology_file, metrics_file, file_features, ingest_pc,
                   ingested>>
    /\ UNCHANGED <<mlVars, notApi>>

\* POST /v1/ingest up to the first write of save_data: topology.json
IngestTopology ==
    /\ ingest_pc = "idle"
    /\ topology_file' = TRUE
    /\ ingest_pc' = "metrics"
    /\ response' = NoResponse
    /\ UNCHANGED <<metrics_file, file_features, ingested, model_mode>>
    /\ UNCHANGED <<mlVars, notApi>>

\* the rest of POST /v1/ingest: metrics.parquet is written, 200 returned
IngestMetrics(batch) ==
    /\ ingest_pc = "metrics"
    /\ metrics_file' = batch
    /\ file_features' = compute_features(batch, windows)
    /\ ingest_pc' = "idle"
    /\ ingested' = TRUE
    /\ response' = NoResponse
    /\ UNCHANGED <<topology_file, model_mode>>
    /\ UNCHANGED <<mlVars, notApi>>

\* scripts/train_models.py running to its end: the statistical model is
\* loaded or created, trained and saved
TrainModels ==
    /\ train_calls < MaxTrainCalls
    /\ train_calls' = train_calls + 1
    /\ artifact' = model_data(train(IF artifact # None THEN load(artifact)
                                    ELSE MLBasedModel,
                                    train_calls + 1, "no", FALSE))
    /\ artifact_provenance' = "trained"
    /\ response' = NoResponse
    /\ UNCHANGED <<models, provenance, ml_model, ml_result>>
    /\ UNCHANGED <<topology_file, metrics_file, file_features, ingest_pc,
                   ingested, model_mode>>
    /\ UNCHANGED notApi

\* POST /v1/predict with the given horizon and targets
PredictRequest(horizon_min, targets, ps) ==
    /\ LET r == predict_handler(topology_file, metrics_file, file_features,
                                model_mode, artifact, targets, ps,
                                horizon_min)
       IN  response' = [status |-> r.status, horizon_min |-> horizon_min,
                        targets |-> targets, predictions |-> r.predictions]
    /\ UNCHANGED <<topology_file, metrics_file, file_features, ingest_pc,
                   ingested, model_mode>>
    /\ UNCHANGED <<mlVars, notApi>>

NextApi ==
    \/ \E mode \in {"rule", "ml", "hybrid"} : Configure(mode)
    \/ IngestTopology
    \/ \E batch \in IngestBatches : IngestMetrics(batch)
    \/ TrainModels
    \/ \E n \in 0..MaxTargets :
         \E targets \in [1..n -> TargetInputs] :
           \E ps \in [1..n -> IF model_mode = "ml" /\ artifact # None
                               THEN RequestProbabilities
                               ELSE {<<0, 1>>}] :
             \E horizon_min \in Horizons :
               PredictRequest(horizon_min, targets, ps)

SpecApi == Init /\ [][NextApi]_vars

\* every operation of every component
\* pipeline.run(df) is called with a batch
CallRun(batch) ==
    /\ det_pc = "pick"
    /\ det_input' = batch
    /\ det_df' = batch
    /\ det_pc' = "detect"
    /\ UNCHANGED <<det_ran, det_out, det_final>>
    /\ UNCHANGED notDet

\* one turn of "for detector in self.detectors", the list being in any order
RunDetector(class) ==
    /\ det_pc = "detect"
    /\ \A k \in 1..Len(det_ran) : det_ran[k] # class
    /\ LET r == detect(class, det_df)
       IN  /\ det_out' = Append(det_out, r.anomalies)
           /\ det_df' = r.df
    /\ det_ran' = Append(det_ran, class)
    /\ UNCHANGED <<det_input, det_pc, det_final>>
    /\ UNCHANGED notDet

\* the rest of run once every detector has been called
ReturnRun ==
    /\ det_pc = "detect"
    /\ Len(det_ran) = Cardinality(DetectorNames)
    /\ det_final' = merge(det_out)
    /\ det_pc' = "done"
    /\ UNCHANGED <<det_input, det_df, det_ran, det_out>>
    /\ UNCHANGED notDet

NextDetectors ==
    \/ \E batch \in DetectorBatches : CallRun(batch)
    \/ \E class \in DetectorNames : RunDetector(class)
    \/ ReturnRun

SpecDetectors == Init /\ [][NextDetectors]_vars

\* the model was trained on one more column, whose coefficient is c
FitColumn(c) ==
    /\ Len(fit_columns) < MaxColumns
    /\ Len(fit_columns) < Len(TrainColumns)
    /\ fit_columns' = Append(fit_columns, TrainColumns[Len(fit_columns) + 1])
    /\ fit_coef' = Append(fit_coef, c)
    /\ top_features' = << >>
    /\ top_result' = << >>
    /\ UNCHANGED notExplain

\* explanations = self._get_top_features(features, n=3) at the end of predict
GetTopFeatures ==
    /\ fit_columns # << >>
    /\ top_result = << >>
    /\ \E features \in FeatureDicts(fit_columns) :
         /\ top_features' = features
         /\ top_result' = get_top_features(fit_columns, fit_coef, features, 3)
    /\ UNCHANGED <<fit_columns, fit_coef>>
    /\ UNCHANGED notExplain

NextExplain ==
    \/ \E c \in Coefficients : FitColumn(c)
    \/ GetTopFeatures

SpecExplain == Init /\ [][NextExplain]_vars

\* app.add_middleware(RateLimitMiddleware, limit_per_min=limit), before any
\* request is served
AddMiddleware(limit) ==
    /\ rate_log = << >>
    /\ current_time = 0
    /\ limit_per_min = 60
    /\ limit_per_min' = limit
    /\ UNCHANGED <<requests, current_time, rate_log>>
    /\ UNCHANGED notRate

\* twenty seconds pass
Advance ==
    /\ current_time < 20 * MaxTicks
    /\ current_time' = current_time + 20
    /\ UNCHANGED <<limit_per_min, requests, rate_log>>
    /\ UNCHANGED notRate

\* a request of client_ip goes through the middleware
Dispatch(client_ip) ==
    /\ Len(rate_log) < MaxRequests
    /\ LET r == dispatch(limit_per_min, requests, client_ip, current_time)
       IN  /\ requests' = r.requests
           /\ rate_log' = Append(rate_log,
                  [client |-> client_ip, time |-> current_time,
                   status |-> r.status])
    /\ UNCHANGED <<limit_per_min, current_time>>
    /\ UNCHANGED notRate

NextRate ==
    \/ \E limit \in Limits : AddMiddleware(limit)
    \/ Advance
    \/ \E client_ip \in Clients : Dispatch(client_ip)

SpecRate == Init /\ [][NextRate]_vars

\* risk_scores[entity_id] = risk_score, for an entity not scored yet
SetRiskScore(entity_id, score) ==
    /\ Len(plan_scores) < MaxScores
    /\ \A k \in 1..Len(plan_scores) : plan_scores[k].id # entity_id
    /\ plan_scores' = Append(plan_scores, [id |-> entity_id, score |-> score])
    /\ plan_request' = None
    /\ plan_topology' = None
    /\ plan_response' = NoPlan
    /\ UNCHANGED notPlan

\* plan = planner.generate_plan(request, topology, risk_scores)
GeneratePlan ==
    /\ plan_request = None
    /\ \E request \in PlanRequests, topology \in Topologies :
         /\ plan_request' = request
         /\ plan_topology' = topology
         /\ plan_response' = generate_plan(request, topology, plan_scores)
    /\ UNCHANGED plan_scores
    /\ UNCHANGED notPlan

NextPlan ==
    \/ \E entity_id \in EntityIds, score \in RiskScores :
           SetRiskScore(entity_id, score)
    \/ GeneratePlan

SpecPlan == Init /\ [][NextPlan]_vars

Next ==
    NextPipe \/ NextTaxonomy \/ NextFeat \/ NextRule \/ NextML
             \/ NextThreads \/ NextSelector \/ NextApi \/ NextDetectors
             \/ NextExplain \/ NextRate \/ NextPlan

Spec == Init /\ [][Next]_vars

(***************************************************************************)
(* Properties of the anomaly pipeline                                      *)
(***************************************************************************)
\* the finding carries the row's firewall id, src ip, dst ip, protocol, action
Carries(f, row) ==
    /\ f.firewall_id = row.firewall_id
    /\ f.src_ip = row.src_ip
    /\ f.dst_ip = row.dst_ip
    /\ f.protocol = row.protocol
    /\ f.action = row.action

\* (timestamp, firewall id, src ip, dst ip, protocol, action, defect id)
FindingKey(f) ==
    <<f.timestamp, f.firewall_id, f.src_ip, f.dst_ip, f.protocol, f.action,
      f.bug_type>>

\* the defect ids of the detectors whose condition the row meets
MatchedIds(row) ==
    (IF to_datetime(row.timestamp).nat THEN {NaTBugType(row)} ELSE {})
    \cup (IF NonNumericPortCondition(row) THEN {"nonnumeric_port"} ELSE {})
    \cup (IF NegativeBytesCondition(row) THEN {"negative_bytes"} ELSE {})
    \cup (IF row.src_ip = ip_target \/ row.dst_ip = ip_target
          THEN {"invalid_ip"} ELSE {})
    \cup (IF DuplicateFieldCondition(row) THEN {"duplicate_field"} ELSE {})
    \cup (IF MissingFieldCondition(row) THEN {"missing_field"} ELSE {})
    \cup (IF ThreatCondition(row) THEN {THREAT_MAPPING[row.reason]} ELSE {})

\* C1: the output of AnomalyPipeline.run holds no two findings equal in
\* (emitted timestamp, firewall id, src ip, dst ip, protocol, action, defect
\* id).
C1_NoDuplicateFindings ==
    pipe_pc = "done" =>
        \A i, j \in 1..Len(df_final) :
            i # j => FindingKey(df_final[i]) # FindingKey(df_final[j])

\* two rows of the batch gave the same finding, and run has dropped one
C1_Witness ==
    /\ pipe_pc = "done"
    /\ Len(df) >= 2
    /\ Len(df_final) >= 1
    /\ Len(Concat(all_anomalies)) > Len(df_final)
    /\ \E i, j \in 1..Len(df) : i # j /\ df[i] # df[j]

\* C2: the timestamp detector emits one finding per row whose timestamp does
\* not parse, corrupt_line when every other field of the row is empty and
\* malformed_timestamp when one is present, and nothing for the other rows.
C2_NaTDefectId ==
    pipe_pc = "done" =>
        LET bad == SelectSeq(Indices(df),
                             LAMBDA i : df[i].timestamp \notin
                                 {"2025-02-01 00:00:00", "2025-02-01T00:00:00",
                                  "2025-02-01 00:00:01", "2025-02-01 00:00:05"})
            nat == all_anomalies[1]
        IN  /\ Len(nat) = Len(bad)
            /\ \A k \in 1..Len(bad) :
                /\ Carries(nat[k], df[bad[k]])
                /\ nat[k].bug_type =
                     IF df[bad[k]] = [EmptyRow EXCEPT
                                        !.timestamp = df[bad[k]].timestamp]
                     THEN "corrupt_line"
                     ELSE "malformed_timestamp"

\* one batch gave a corrupt_line and a malformed_timestamp finding, next to a
\* row with a good timestamp
C2_Witness ==
    /\ pipe_pc = "done"
    /\ \E k \in 1..Len(all_anomalies[1]) :
           all_anomalies[1][k].bug_type = "corrupt_line"
    /\ \E k \in 1..Len(all_anomalies[1]) :
           all_anomalies[1][k].bug_type = "malformed_timestamp"
    /\ Len(all_anomalies[1]) < Len(df)

\* C3: severity and category are a function of the defect id alone: each of
\* the 13 registered ids has the pair of the taxonomy table, and any other id
\* has (Unknown, Unknown).
C3_Taxonomy ==
    \A k \in 1..Len(enriched) :
        LET b == enriched[k].bug_type
            got == <<enriched[k].severity, enriched[k].type>>
        IN  /\ b = bug_types[k]
            /\ b \in {"malformed_timestamp", "corrupt_line", "invalid_ip"}
                 => got = <<"High", "Bug">>
            /\ b \in {"nonnumeric_port", "negative_bytes"}
                 => got = <<"Medium", "Bug">>
            /\ b \in {"missing_field", "duplicate_field"}
                 => got = <<"Low", "Bug">>
            /\ b \in {"port_scan", "xss"} => got = <<"Medium", "Attack">>
            /\ b \in {"brut_force", "malware_download", "ddos",
                      "sql_injection"} => got = <<"High", "Attack">>
            /\ b \notin {"malformed_timestamp", "corrupt_line", "invalid_ip",
                         "nonnumeric_port", "negative_bytes", "missing_field",
                         "duplicate_field", "port_scan", "xss", "brut_force",
                         "malware_download", "ddos", "sql_injection"}
                 => got = <<"Unknown", "Unknown">>

\* enrich has classified a registered and an unregistered id in one call
C3_Witness ==
    /\ Len(enriched) = 2
    /\ enriched[1].bug_type = "ddos"
    /\ enriched[2].bug_type = "unknown_bug"

\* C4: no malformed row is dropped: for every row and every detector whose
\* defect condition the row meets, the output holds a finding that carries
\* the row's firewall id, src ip, dst ip, protocol and action with that
\* detector's defect id.
C4_NoSilentDrop ==
    pipe_pc = "done" =>
        \A i \in 1..Len(df) : \A b \in MatchedIds(df[i]) :
            \E k \in 1..Len(df_final) :
                Carries(df_final[k], df[i]) /\ df_final[k].bug_type = b

\* a row without a timestamp that cannot be imputed is in the output
C4_Witness ==
    /\ pipe_pc = "done"
    /\ \E k \in 1..Len(df_final) :
           df_final[k].timestamp.nat /\ df_final[k].bug_type = "negative_bytes"
    /\ \E k \in 1..Len(df_final) : df_final[k].bug_type = "missing_field"

\* C5: detectors do not short-circuit each other: a row that meets the
\* conditions of k detectors has k findings in the output, one per detector,
\* and a batch of that one row has exactly these k findings.
C5_NoShortCircuit ==
    pipe_pc = "done" =>
        /\ \A i \in 1..Len(df) :
            Cardinality({k \in 1..Len(df_final) :
                            /\ Carries(df_final[k], df[i])
                            /\ df_final[k].bug_type \in MatchedIds(df[i])})
                >= Cardinality(MatchedIds(df[i]))
        /\ Len(df) = 1 =>
            /\ Len(df_final) = Cardinality(MatchedIds(df[1]))
            /\ {df_final[k].bug_type : k \in 1..Len(df_final)}
                 = MatchedIds(df[1])

\* the fully empty row: a timestamp finding and the two others it meets; and
\* a row that six detectors flag
C5_Witness ==
    /\ pipe_pc = "done"
    /\ Len(df) = 2
    /\ df[1] = EmptyRow
    /\ {df_final[k].bug_type : k \in 1..Len(df_final)}
         = {"corrupt_line", "nonnumeric_port", "missing_field",
            "negative_bytes", "invalid_ip", "duplicate_field", "sql_injection"}

\* every required field other than bytes holds a value no detector flags
OtherRequiredFieldsValid(row) ==
    /\ \A f \in REQUIRED_FIELDS \ {"bytes"} : ~isnull(row, f)
    /\ row.src_ip # ip_target
    /\ row.dst_ip # ip_target
    /\ ~DuplicateFieldCondition(row)
    /\ ~ThreatCondition(row)

\* the byte count of the row is a number below zero
NegativeByteCount(row) ==
    row.bytes \in DOMAIN NumericTexts /\ NumericTexts[row.bytes] < 0

ExactlyOneNegativeBytes ==
    /\ Len(df_final) = 1
    /\ df_final[1].bug_type = "negative_bytes"
    /\ df_final[1].severity = "Medium"
    /\ df_final[1].type = "Bug"

\* C6 as stated: a batch of one row with a negative byte count and all other
\* required fields valid gives exactly one finding, negative_bytes, Medium,
\* Bug.
C6_SingleNegativeBytesRow ==
    (/\ pipe_pc = "done"
     /\ Len(df) = 1
     /\ NegativeByteCount(df[1])
     /\ OtherRequiredFieldsValid(df[1]))
        => ExactlyOneNegativeBytes

\* C6 amended: a batch of one row with a negative byte count, a timestamp
\* that parses, numeric source and destination ports and all other required
\* fields valid gives exactly one finding, negative_bytes, Medium, Bug.
C6_SingleNegativeBytesRowWellFormed ==
    (/\ pipe_pc = "done"
     /\ Len(df) = 1
     /\ NegativeByteCount(df[1])
     /\ OtherRequiredFieldsValid(df[1])
     /\ ~to_datetime(df[1].timestamp).nat
     /\ ~to_numeric(df[1].src_port).nan
     /\ ~to_numeric(df[1].dst_port).nan)
        => ExactlyOneNegativeBytes

\* the scenario's batch has been run
C6_Witness ==
    /\ pipe_pc = "done"
    /\ df = <<[ValidRow EXCEPT !.bytes = "-5"]>>
    /\ ExactlyOneNegativeBytes

\* the positions of the batch whose timestamp text does not parse
Unparseable ==
    SelectSeq(Indices(df), LAMBDA i : df[i].timestamp \notin DOMAIN DatetimeFormats)

\* C20: the finding of a row whose timestamp does not parse reports the
\* timestamp of the row just before it in the batch plus one second if and
\* only if that row exists and its own timestamp parses; for the first row,
\* and for a row that follows an unparseable one (so for every row but the
\* first of a run of unparseable rows), the timestamp stays unresolved: an
\* imputed value is never the base of another.
C20_Imputation ==
    pipe_pc = "done" =>
        /\ Len(all_anomalies[1]) = Len(Unparseable)
        /\ \A k \in 1..Len(Unparseable) :
              LET i == Unparseable[k]
                  f == all_anomalies[1][k]
                  precedentValid ==
                      i > 1 /\ df[i - 1].timestamp \in DOMAIN DatetimeFormats
              IN  /\ ~f.timestamp.nat <=> precedentValid
                  /\ precedentValid =>
                        f.timestamp.sec
                          = DatetimeFormats[df[i - 1].timestamp] + 1
                  /\ (k > 1 /\ Unparseable[k - 1] = i - 1) => f.timestamp.nat

\* a valid row followed by two unparseable ones: the first finding is
\* imputed, the second is not although the finding before it was
C20_Witness ==
    /\ pipe_pc = "done"
    /\ Len(df) = 3
    /\ Unparseable = <<2, 3>>
    /\ df[1].timestamp = "2025-02-01 00:00:05"
    /\ all_anomalies[1][1].timestamp = Timestamp(6)
    /\ all_anomalies[1][2].timestamp = NaT

\* C21: the findings run returns are in ascending order of timestamp, and
\* the findings whose timestamp is unresolved all come after every resolved
\* one, for every batch: none lies between two resolved findings or before
\* one.
C21_SortedUnresolvedLast ==
    pipe_pc = "done" =>
        \A i, j \in 1..Len(df_final) :
            i < j =>
                /\ df_final[i].timestamp.nat => df_final[j].timestamp.nat
                /\ (~df_final[i].timestamp.nat /\ ~df_final[j].timestamp.nat)
                     => df_final[i].timestamp.sec <= df_final[j].timestamp.sec

\* the detectors' findings arrive with an unresolved timestamp ahead of two
\* resolved ones in descending order; run returns the two ascending and the
\* unresolved one after them
C21_Witness ==
    /\ pipe_pc = "done"
    /\ Len(df_final) >= 3
    /\ ~df_final[1].timestamp.nat /\ ~df_final[2].timestamp.nat
    /\ df_final[1].timestamp.sec < df_final[2].timestamp.sec
    /\ df_final[Len(df_final)].timestamp.nat
    /\ LET c == Concat(all_anomalies)
       IN  \E a, b, d \in 1..Len(c) :
             /\ a < b /\ b < d
             /\ c[a].timestamp.nat
             /\ ~c[b].timestamp.nat /\ ~c[d].timestamp.nat
             /\ c[b].timestamp.sec > c[d].timestamp.sec

\* the findings of a DataFrame as a set
FindingSet(s) == {s[k] : k \in 1..Len(s)}

RowsCarrying(f) == {i \in 1..Len(df) : Carries(f, df[i])}

\* every row the finding can come from has a timestamp that does not parse
OnlyUnparseable(f) ==
    \A i \in RowsCarrying(f) : df[i].timestamp \notin DOMAIN DatetimeFormats

\* C26: of the findings of a row whose timestamp does not parse, only the
\* one of the timestamp detector carries an imputed timestamp; what any
\* other detector reports for the row keeps the unresolved timestamp (a
\* resolved timestamp of such a detector is the parsed timestamp of a row it
\* comes from), so in the sorted output the row's findings of other
\* detectors come after its imputed timestamp finding, at another position
\* and with another timestamp.
C26_ImputedOnlyInNaTFinding ==
    pipe_pc = "done" =>
        /\ \A d \in 2..Len(all_anomalies) :
              \A k \in 1..Len(all_anomalies[d]) :
                LET f == all_anomalies[d][k]
                IN  /\ OnlyUnparseable(f) => f.timestamp = NaT
                    /\ ~f.timestamp.nat =>
                         \E i \in RowsCarrying(f) :
                            /\ df[i].timestamp \in DOMAIN DatetimeFormats
                            /\ f.timestamp
                                 = Timestamp(DatetimeFormats[df[i].timestamp])
        /\ \A p, q \in 1..Len(df_final) :
              (/\ df_final[p].bug_type
                    \in {"corrupt_line", "malformed_timestamp"}
               /\ ~df_final[p].timestamp.nat
               /\ df_final[q].bug_type
                    \notin {"corrupt_line", "malformed_timestamp"}
               /\ OnlyUnparseable(df_final[q]))
              => p < q /\ df_final[q].timestamp.nat

\* a valid row followed by an empty row with a bad timestamp: the row's
\* corrupt_line finding is imputed, its missing_field and nonnumeric_port
\* findings are not and come later in the output
C26_Witness ==
    /\ pipe_pc = "done"
    /\ Len(df) = 2
    /\ df[1].timestamp = "2025-02-01 00:00:05"
    /\ df[2] = [EmptyRow EXCEPT !.timestamp = "31/31/2025"]
    /\ all_anomalies[1][1].timestamp = Timestamp(6)
    /\ \E k \in 1..Len(all_anomalies[6]) :
          Carries(all_anomalies[6][k], df[2])
            /\ all_anomalies[6][k].timestamp = NaT
    /\ \E p, q \in 1..Len(df_final) :
          /\ p < q
          /\ df_final[p].bug_type = "corrupt_line"
          /\ ~df_final[p].timestamp.nat
          /\ df_final[q].bug_type = "missing_field"
          /\ df_final[q].timestamp.nat

(***************************************************************************)
(* Properties of the feature aggregator                                    *)
(***************************************************************************)
\* the sample is one of the entity of feature row r
OfEntity(smp, r) ==
    IF r.entity_type = "node" THEN smp.node_id = r.entity_id
    ELSE smp.link_id = r.entity_id

\* the positions of the batch whose sample is of r's entity, lies in
\* [r.ts - W, r.ts] and has a value of the metric
InWindow(r, W, col) ==
    {i \in 1..Len(metrics_df) :
        /\ OfEntity(metrics_df[i], r)
        /\ r.ts - W <= metrics_df[i].ts
        /\ metrics_df[i].ts <= r.ts
        /\ ~metrics_df[i][col].nan}

RECURSIVE SumOver(_, _, _)
SumOver(I, col, power) ==
    IF I = {} THEN 0
    ELSE LET i == CHOOSE x \in I : TRUE
             v == metrics_df[i][col].val
         IN  (IF power = 2 THEN v * v ELSE v) + SumOver(I \ {i}, col, power)

\* C7: every aggregate of (t, W, metric) is computed from the entity's own
\* samples with timestamp in [t - W, t] and from nothing else: no later
\* sample, no earlier one, none of another entity.
C7_WindowOnly ==
    feat_pc = "done" =>
        \A k \in 1..Len(features_df.rows) :
          \A W \in {5, 15, 30} : \A col \in MetricColumns :
            LET r == features_df.rows[k]
                I == InWindow(r, W, col)
                V == {metrics_df[i][col].val : i \in I}
                n == Cardinality(I)
            IN  /\ \A st \in {"mean", "std", "min", "max"} :
                      <<col, st, W>> \in DOMAIN r.feats <=> I # {}
                /\ I # {} =>
                    /\ r.feats[<<col, "min", W>>] \in V
                    /\ \A v \in V : r.feats[<<col, "min", W>>] <= v
                    /\ r.feats[<<col, "max", W>>] \in V
                    /\ \A v \in V : r.feats[<<col, "max", W>>] >= v
                    /\ r.feats[<<col, "mean", W>>]
                         = [num |-> SumOver(I, col, 1), den |-> n]
                    /\ r.feats[<<col, "std", W>>].nan = (n = 1)
                    /\ n > 1 =>
                        /\ r.feats[<<col, "std", W>>].num
                             = n * SumOver(I, col, 2)
                                 - SumOver(I, col, 1) * SumOver(I, col, 1)
                        /\ r.feats[<<col, "std", W>>].den = n * (n - 1)

\* a feature row of N1 at minute 10 whose 5-minute window leaves out an
\* earlier sample of N1 and a sample of N2 that lies in the interval
C7_Witness ==
    /\ feat_pc = "done"
    /\ features_df.error = ""
    /\ \E k \in 1..Len(features_df.rows) :
        /\ features_df.rows[k].entity_id = "N1"
        /\ features_df.rows[k].ts = 5
        /\ <<"cpu", "mean", 5>> \in DOMAIN features_df.rows[k].feats
        /\ features_df.rows[k].feats[<<"cpu", "mean", 5>>].den = 1
    /\ \E i, j \in 1..Len(metrics_df) :
        /\ metrics_df[i] = NodeSample("N1", 10, Num(90))
        /\ metrics_df[j] = NodeSample("N2", 5, Num(70))

\* C8: the window is closed at both ends: a sample exactly W minutes before
\* t is in window W at t, where it is the first value of the change ratio.
\* For N1 with cpu 0.5, 0.6, 0.9 at minutes 0, 5, 10 the window-5 features at
\* t = 10 have min 0.6, max 0.9 (mean of the two) and change ratio 0.5
\* (the batch being those three samples, in any order).
C8_ClosedWindow ==
    feat_pc = "done" =>
        /\ \A k \in 1..Len(features_df.rows) :
            \A W \in {5, 15, 30} : \A col \in MetricColumns :
              \A i \in 1..Len(metrics_df) :
                LET r == features_df.rows[k]
                    smp == metrics_df[i]
                IN  (OfEntity(smp, r) /\ smp.ts = r.ts - W /\ ~smp[col].nan)
                    => /\ <<col, "min", W>> \in DOMAIN r.feats
                       /\ r.feats[<<col, "min", W>>] <= smp[col].val
                       /\ r.feats[<<col, "max", W>>] >= smp[col].val
                       /\ (smp[col].val # 0
                           /\ <<col, "current", 0>> \in DOMAIN r.feats)
                          => /\ <<col, "change", W>> \in DOMAIN r.feats
                             /\ r.feats[<<col, "change", W>>]
                                  = [num |-> r.feats[<<col, "current", 0>>]
                                               - smp[col].val,
                                     den |-> smp[col].val]
        /\ (/\ Len(metrics_df) = 3
            /\ {metrics_df[i] : i \in 1..Len(metrics_df)}
                 = {NodeSample("N1", 0, Num(50)), NodeSample("N1", 5, Num(60)),
                    NodeSample("N1", 10, Num(90))})
           => \E k \in 1..Len(features_df.rows) :
                LET r == features_df.rows[k]
                IN  /\ r.entity_id = "N1" /\ r.ts = 10
                    /\ r.feats[<<"cpu", "min", 5>>] = 60
                    /\ r.feats[<<"cpu", "max", 5>>] = 90
                    /\ r.feats[<<"cpu", "mean", 5>>] = [num |-> 150, den |-> 2]
                    /\ 2 * r.feats[<<"cpu", "change", 5>>].num
                         = r.feats[<<"cpu", "change", 5>>].den

\* the scenario's batch has been aggregated
C8_Witness ==
    /\ feat_pc = "done"
    /\ metrics_df = <<NodeSample("N1", 0, Num(50)),
                      NodeSample("N1", 5, Num(60)),
                      NodeSample("N1", 10, Num(90))>>
    /\ Len(features_df.rows) = 3
    /\ features_df.rows[3].feats[<<"cpu", "change", 5>>]
         = [num |-> 30, den |-> 60]

\* the feature rows emitted for the (entity, timestamp) pair of a sample
VectorsOf(smp) ==
    {k \in 1..Len(features_df.rows) :
        /\ OfEntity(smp, features_df.rows[k])
        /\ features_df.rows[k].ts = smp.ts}

\* C18: the aggregator emits exactly one feature vector per (entity,
\* timestamp) pair of the batch, none missing and none twice, also when the
\* batch holds several samples of one entity at one timestamp; and every
\* vector is of a pair of the batch.
C18_OneVectorPerPair ==
    feat_pc = "done" =>
        /\ \A i \in 1..Len(metrics_df) :
              Cardinality(VectorsOf(metrics_df[i])) = 1
        /\ \A k \in 1..Len(features_df.rows) :
              \E i \in 1..Len(metrics_df) : k \in VectorsOf(metrics_df[i])

\* C19: the change ratio of (metric, window) is in the feature vector if and
\* only if the window holds at least two non-missing samples of the metric
\* and the earliest of them is non-zero; it is then (last - first) / first
\* with a non-zero divisor, and otherwise the key is absent: no division by
\* zero, no infinite or NaN change ratio.
C19_ChangeRatioGuard ==
    feat_pc = "done" =>
        \A k \in 1..Len(features_df.rows) :
          \A W \in {5, 15, 30} : \A col \in MetricColumns :
            LET r == features_df.rows[k]
                I == InWindow(r, W, col)
                first == CHOOSE i \in I :
                             \A j \in I : metrics_df[i].ts <= metrics_df[j].ts
                last == CHOOSE i \in I :
                            \A j \in I : metrics_df[i].ts >= metrics_df[j].ts
            IN  /\ <<col, "change", W>> \in DOMAIN r.feats
                     <=> (Cardinality(I) >= 2 /\ metrics_df[first][col].val # 0)
                /\ <<col, "change", W>> \in DOMAIN r.feats
                     => /\ r.feats[<<col, "change", W>>].den # 0
                        /\ r.feats[<<col, "change", W>>]
                             = [num |-> metrics_df[last][col].val
                                          - metrics_df[first][col].val,
                                den |-> metrics_df[first][col].val]

\* N1 with cpu 0, 0.5, 0.9 at minutes 0, 5, 10: at minute 5 the window of 5
\* starts with the zero and has aggregates but no change ratio; at minute 10
\* the window of 5 has the ratio 0.4 / 0.5 and the window of 15 has none
C19_Witness ==
    /\ feat_pc = "done"
    /\ metrics_df = <<NodeSample("N1", 0, Num(0)),
                      NodeSample("N1", 5, Num(50)),
                      NodeSample("N1", 10, Num(90))>>
    /\ Len(features_df.rows) = 3
    /\ <<"cpu", "mean", 5>> \in DOMAIN features_df.rows[2].feats
    /\ <<"cpu", "change", 5>> \notin DOMAIN features_df.rows[2].feats
    /\ features_df.rows[3].feats[<<"cpu", "change", 5>>]
         = [num |-> 40, den |-> 50]
    /\ <<"cpu", "change", 15>> \notin DOMAIN features_df.rows[3].feats

(***************************************************************************)
(* Properties of the rule risk model                                       *)
(***************************************************************************)
\* the number of metrics whose _current value is a number above the
\* configured threshold
ViolationCount(features) ==
    Cardinality({m \in {"cpu", "mem", "if_util", "pkt_err", "latency_ms"} :
        /\ <<m, "current", 0>> \in DOMAIN features
        /\ features[<<m, "current", 0>>] \notin {None, NaN}
        /\ features[<<m, "current", 0>>].val > thresholds[m]})

\* some window's cpu change ratio is a number above 0.2
HasTrend(features) ==
    \E w \in {5, 15, 30} :
        /\ <<"cpu", "change", w>> \in DOMAIN features
        /\ features[<<"cpu", "change", w>>] \notin {None, NaN}
        /\ ExceedsFifth(features[<<"cpu", "change", w>>])

\* C9: with v metrics above their threshold and no qualifying CPU trend,
\* predict returns 0.1/LOW for v = 0, 0.4/MEDIUM for v = 1, 0.7/HIGH for
\* v = 2 and 0.95/CRITICAL for v >= 3.
C9_ScoreMapping ==
    (rule_pc = "done" /\ ~HasTrend(rule_features)) =>
        LET v == ViolationCount(rule_features)
            got == <<rule_result.risk_score, rule_result.risk_band>>
        IN  /\ v = 0 => got = <<10, "LOW">>
            /\ v = 1 => got = <<40, "MEDIUM">>
            /\ v = 2 => got = <<70, "HIGH">>
            /\ v >= 3 => got = <<95, "CRITICAL">>

\* two values above threshold, a cpu change of exactly 0.2: 0.7 and HIGH
C9_Witness ==
    /\ rule_pc = "done"
    /\ ViolationCount(rule_features) = 2
    /\ <<"cpu", "change", 5>> \in DOMAIN rule_features
    /\ rule_features[<<"cpu", "change", 5>>] = [num |-> 20, den |-> 100]
    /\ ~HasTrend(rule_features)
    /\ rule_result.risk_score = 70
    /\ rule_result.risk_band = "HIGH"

\* the score of v violations before the trend adjustment, in hundredths
BaseScore(v) == IF v = 0 THEN 10 ELSE IF v = 1 THEN 40
                ELSE IF v = 2 THEN 70 ELSE 95

\* C17: if the CPU change ratio of at least one of the windows 5, 15, 30 is
\* present and above +0.2, exactly 0.1 is added to the base score, once
\* however many windows qualify, capped at 1.0, and one trend explanation
\* follows the violation explanations; if none qualifies the score is the
\* base score.  With neither violation nor trend the explanations are the
\* one nominal message: the list is never empty.
C17_TrendAdjustment ==
    rule_pc = "done" =>
        LET v == ViolationCount(rule_features)
            e == rule_result.explanations
            isTrend(x) == x[1] = "tendance CPU"
        IN  /\ Len(e) >= 1
            /\ HasTrend(rule_features) =>
                 /\ rule_result.risk_score
                      = (IF BaseScore(v) + 10 > 100 THEN 100
                         ELSE BaseScore(v) + 10)
                 /\ Len(e) = v + 1
                 /\ isTrend(e[v + 1])
                 /\ \A k \in 1..v : ~isTrend(e[k]) /\ e[k][2] = "up"
            /\ ~HasTrend(rule_features) =>
                 /\ rule_result.risk_score = BaseScore(v)
                 /\ \A k \in 1..Len(e) : ~isTrend(e[k])
                 /\ v > 0 => Len(e) = v
                 /\ v = 0 => e = <<<<"Metriques nominales">>>>

\* three violations and all three windows above 0.2: 0.95 + 0.1 capped at
\* 1.0, one trend explanation after the three violations
C17_Witness ==
    /\ rule_pc = "done"
    /\ ViolationCount(rule_features) = 3
    /\ \A w \in {5, 15, 30} :
         /\ <<"cpu", "change", w>> \in DOMAIN rule_features
         /\ rule_features[<<"cpu", "change", w>>] \notin {None, NaN}
         /\ ExceedsFifth(rule_features[<<"cpu", "change", w>>])
    /\ rule_result.risk_score = 100
    /\ Len(rule_result.explanations) = 4

\* C24: the band the rule model returns is the band the score thresholds
\* (< 0.3 LOW, < 0.6 MEDIUM, < 0.85 HIGH, else CRITICAL) give the score it
\* returns: the band is set from the violation count before the trend
\* adjustment and not computed again, and the adjustment never takes the
\* score over a band boundary.
C24_BandMatchesScore ==
    rule_pc = "done" =>
        rule_result.risk_band
          = (IF rule_result.risk_score < 30 THEN "LOW"
             ELSE IF rule_result.risk_score < 60 THEN "MEDIUM"
             ELSE IF rule_result.risk_score < 85 THEN "HIGH"
             ELSE "CRITICAL")

\* two violations and a CPU trend: 0.7 + 0.1 = 0.8, still HIGH
C24_Witness ==
    /\ rule_pc = "done"
    /\ ViolationCount(rule_features) = 2
    /\ HasTrend(rule_features)
    /\ rule_result.risk_score = 80
    /\ rule_result.risk_band = "HIGH"

\* the metrics predict has reported as violations
Reported ==
    {rule_result.explanations[k][1] :
        k \in {j \in 1..Len(rule_result.explanations) :
                  Len(rule_result.explanations[j]) = 2}}

\* the change ratio, a fraction of positive divisor, is above 0.2
AboveFifth(c) == 5 * c.num > c.den

\* C25: a metric is a violation only if its _current value is a number
\* strictly above the threshold: a value equal to the threshold, a missing
\* key, a None and a NaN never count; each metric counts at most once, so
\* there are between 0 and 5 violations; and the CPU trend is noted only for
\* a change ratio strictly above 0.2.
C25_StrictComparisons ==
    rule_pc = "done" =>
        LET e == rule_result.explanations
            violation == {k \in 1..Len(e) : Len(e[k]) = 2}
            trend == {k \in 1..Len(e) : Len(e[k]) = 3}
            cur(m) == <<m, "current", 0>>
        IN  /\ \A m \in DOMAIN thresholds :
                 m \in Reported <=>
                    /\ cur(m) \in DOMAIN rule_features
                    /\ rule_features[cur(m)] \notin {None, NaN}
                    /\ rule_features[cur(m)].val > thresholds[m]
            /\ \A j, k \in violation : e[j][1] = e[k][1] => j = k
            /\ Cardinality(violation) <= 5
            /\ Reported \subseteq DOMAIN thresholds
            /\ trend # {} <=>
                 \E w \in {5, 15, 30} :
                    /\ <<"cpu", "change", w>> \in DOMAIN rule_features
                    /\ rule_features[<<"cpu", "change", w>>] \notin {None, NaN}
                    /\ AboveFifth(rule_features[<<"cpu", "change", w>>])

\* cpu exactly at its threshold, mem just above, if_util NaN, pkt_err
\* missing, a change ratio of exactly 0.2 and one below: one violation, no
\* trend
C25_Witness ==
    /\ rule_pc = "done"
    /\ DOMAIN rule_features
         = {<<"cpu", "current", 0>>, <<"mem", "current", 0>>,
            <<"if_util", "current", 0>>, <<"cpu", "change", 5>>,
            <<"cpu", "change", 15>>}
    /\ rule_features[<<"cpu", "current", 0>>] = Num(threshold_cpu_high)
    /\ rule_features[<<"mem", "current", 0>>] = Num(threshold_mem_high + 1)
    /\ rule_features[<<"if_util", "current", 0>>] = NaN
    /\ rule_features[<<"cpu", "change", 5>>] = [num |-> 20, den |-> 100]
    /\ rule_result.explanations = <<<<"mem", "up">>>>
    /\ rule_result.risk_score = 40

(***************************************************************************)
(* Properties of the statistical risk model                                *)
(***************************************************************************)
\* C10: in any sequence of construct / train / save / load / predict,
\* predict ends with the not-trained error and no score unless the instance
\* was trained by a completed train call or loaded from an artifact saved by
\* a trained instance; so does the instance get_model("ml") creates when no
\* artifact exists.
C10_NotTrainedError ==
    /\ (ml_result.outcome # "none" /\ ml_result.provenance \notin Trained)
         => ml_result.outcome = "not_trained"
    /\ \A i \in 1..Len(models) :
         provenance[i] \notin Trained
           => predict_outcomes(models[i]) = {"not_trained"}

\* predict on the instance the selector made without an artifact, after a
\* train call on it that raised, ended with the not-trained error
C10_Witness ==
    /\ ml_model # 0
    /\ ml_result.model = ml_model
    /\ ml_result.outcome = "not_trained"
    /\ provenance[ml_model] = "new"
    /\ models[ml_model].scaler # 0
    /\ artifact = None

\* C11: every prediction of a trained statistical model has
\* score = 0.6 * p_lr + 0.4 * p_if, within [0, 1], and the band the documented
\* thresholds give that score: LOW iff score < 0.3, MEDIUM iff
\* 0.3 <= score < 0.6, HIGH iff 0.6 <= score < 0.85, CRITICAL iff score >= 0.85.
C11_ScoreAndBand ==
    \A k \in 1..Len(ml_result.returned) :
      LET r == ml_result.returned[k]
      IN  /\ 100 * r.risk_score = 60 * (100 * r.p_lr) + 40 * (100 * r.p_if)
          /\ r.risk_score >= 0 /\ r.risk_score <= 10000
          /\ r.risk_band = "LOW" <=> r.risk_score < 3000
          /\ r.risk_band = "MEDIUM"
                <=> (3000 <= r.risk_score /\ r.risk_score < 6000)
          /\ r.risk_band = "HIGH"
                <=> (6000 <= r.risk_score /\ r.risk_score < 8500)
          /\ r.risk_band = "CRITICAL" <=> r.risk_score >= 8500

\* a trained instance returned a score lying exactly on a threshold
C11_Witness ==
    /\ ml_result.outcome = "score"
    /\ ml_result.provenance = "trained"
    /\ Len(ml_result.returned) = 1
    /\ ml_result.returned[1].risk_score = 8500
    /\ ml_result.returned[1].risk_band = "CRITICAL"

\* C12: a predict call running while another thread trains or loads never
\* sees a partly updated model: the feature-column list, scaler, classifier
\* and outlier detector one call computes with are those of one training.
C12_NoPartialModel ==
    \A k \in 1..Len(ml_result.returned) :
      LET u == ml_result.returned[k].used
      IN  u[1] = u[2] /\ u[2] = u[3] /\ u[3] = u[4]

(***************************************************************************)
(* Properties of the risk model selector                                   *)
(***************************************************************************)
\* the classes that define predict(features) -> (score, band, explanations)
Predictors == {"RuleBasedModel", "MLBasedModel"}

C14_EverySettingServed ==
    selected.mode \in {"rule", "ml", "hybrid"} =>
        /\ selected.error = ""
        /\ selected.class \in Predictors

(***************************************************************************)
(* Properties of /v1/predict                                               *)
(***************************************************************************)
\* topology or metrics are not on disk
DataMissing == ~topology_file \/ metrics_file = None

\* C15: a prediction request made while topology or metrics data is missing
\* is answered 404, which no internal error is (those are 500); once an
\* ingest has completed the request is no longer answered 404.
C15_MissingDataNotFound ==
    response.status # 0 =>
        /\ response.status \in {200, 404, 500}
        /\ DataMissing => response.status = 404
        /\ response.status = 404 => DataMissing
        /\ ingested => response.status # 404

\* a request made between the two writes of an ingest was answered 404
C15_Witness ==
    /\ response.status = 404
    /\ topology_file
    /\ metrics_file = None
    /\ Len(response.targets) > 0

\* the entity a target asks for, read off the request
AskedFor(target) ==
    IF target.node_id # "" THEN target.node_id ELSE target.link_id

\* C16: after an ingest, /v1/predict returns exactly one prediction per
\* requested target, in request order, each with its target, a band,
\* explanations and a score within [0, 1]; a target without feature rows gets
\* score 0.0, band LOW and the one explanation "No data available", not an
\* error.
C16_OnePredictionPerTarget ==
    (ingested /\ response.status # 0) =>
        /\ response.status = 200
        /\ Len(response.predictions) = Len(response.targets)
        /\ \A k \in 1..Len(response.predictions) :
             LET r == response.predictions[k]
                 id == AskedFor(response.targets[k])
             IN  /\ r.target = id
                 /\ r.risk_score >= 0 /\ r.risk_score <= 10000
                 /\ r.risk_band \in {"LOW", "MEDIUM", "HIGH", "CRITICAL"}
                 /\ r.explanations # << >>
                 /\ (\A j \in 1..Len(file_features.rows) :
                        file_features.rows[j].entity_id # id)
                      => /\ r.risk_score = 0
                         /\ r.risk_band = "LOW"
                         /\ r.explanations = <<<<"No data available">>>>


\* C27: after any sequence of train calls on an instance, also one with a
\* train call that raised partway, is_trained implies that feature_columns,
\* scaler, outlier detector and classifier are all those of one completed
\* train call: a failed train never leaves a model that predicts with
\* components of different trainings.
C27_TrainedIsConsistent ==
    \A i \in 1..Len(models) :
        models[i].is_trained =>
            /\ models[i].feature_columns # 0
            /\ models[i].scaler = models[i].feature_columns
            /\ models[i].iforest = models[i].feature_columns
            /\ models[i].logreg = models[i].feature_columns

(***************************************************************************)
(* Properties of the statistical model's explanations                      *)
(***************************************************************************)
\* column i of the model has a value in the features dict handed in
Present(i) ==
    /\ fit_columns[i] \in DOMAIN top_features
    /\ top_features[fit_columns[i]] \notin {None, NaN}

\* column j comes before column i in the ranking by absolute coefficient,
\* equal ones in the order of the training columns
Outranks(j, i) ==
    \/ abs(fit_coef[j]) > abs(fit_coef[i])
    \/ abs(fit_coef[j]) = abs(fit_coef[i]) /\ j < i

\* the explanations are those of the columns R in ranking order, each with
\* the arrow of its coefficient, or the generic one if R is empty
Lists(R) ==
    IF R = {} THEN top_result = <<<<"Facteurs multiples">>>>
    ELSE /\ Len(top_result) = Cardinality(R)
         /\ \A i \in R :
              top_result[1 + Cardinality({j \in R : Outranks(j, i)})]
                = <<fit_columns[i], IF fit_coef[i] > 0 THEN "up" ELSE "down">>

\* C23 as stated: the explanations are the top 3 columns by absolute
\* coefficient among the columns present and non-NaN in the input vector,
\* each with an up arrow for a positive and a down arrow for a non-positive
\* coefficient; the generic explanation is returned only when no present
\* column qualifies, and the list is never empty.
C23_TopAmongPresent ==
    top_result # << >> =>
        LET P == {i \in 1..Len(fit_columns) : Present(i)}
        IN  Lists({i \in P : Cardinality({j \in P : Outranks(j, i)}) < 3})

\* C23 amended: the explanations are taken from the top 3 of all training
\* columns by absolute coefficient; those of the three that are present and
\* neither None nor NaN in the input vector are listed in ranking order with
\* their arrow, a column outside the three never is, and the generic
\* explanation is returned when none of the three is present: the list is
\* never empty.
C23_TopThenPresent ==
    top_result # << >> =>
        LET T == {i \in 1..Len(fit_columns) :
                     Cardinality({j \in 1..Len(fit_columns) :
                                     Outranks(j, i)}) < 3}
        IN  Lists({i \in T : Present(i)})

\* four columns, the last of them ranked fourth and the only one with a
\* value in the input: the generic explanation is returned
C23_Witness ==
    /\ Len(fit_columns) = 4
    /\ fit_coef = <<0 - 2, 2, 1, 0>>
    /\ DOMAIN top_features = {fit_columns[2], fit_columns[3], fit_columns[4]}
    /\ top_features[fit_columns[2]] = None
    /\ top_features[fit_columns[3]] = NaN
    /\ Present(4)
    /\ top_result = <<<<"Facteurs multiples">>>>


(***************************************************************************)
(* Properties of the prediction endpoint's ETA                             *)
(***************************************************************************)
\* C28: eta_failure_min is set if and only if the risk score is strictly
\* above 0.7, and is then floor((1 - score) * horizon_min), so that
\* 0 <= eta_failure_min < 0.3 * horizon_min; a score of exactly 0.7 (rule
\* model, two violations, no trend) has no ETA.  The arithmetic holds at the
\* ends of the score range and of the horizon range as well.
C28_EtaAboveThreshold ==
    /\ response.status = 200 =>
        \A k \in 1..Len(response.predictions) :
            LET r == response.predictions[k]
                h == response.horizon_min
            IN  /\ r.eta_failure_min # None <=> r.risk_score > 7000
                /\ r.eta_failure_min # None =>
                     LET e == r.eta_failure_min.min
                     IN  /\ 10000 * e <= (10000 - r.risk_score) * h
                         /\ (10000 - r.risk_score) * h < 10000 * (e + 1)
                         /\ e >= 0
                         /\ 10 * e < 3 * h
    /\ response.status = 200 =>
        \A s \in {0, 6999, 7000, 7001, 8500, 9999, 10000} :
         \A h \in {1, 30, 1440} :
            LET eta == eta_failure_min(s, h)
            IN  /\ eta # None <=> s > 7000
                /\ eta # None =>
                     /\ 10000 * eta.min <= (10000 - s) * h
                     /\ (10000 - s) * h < 10000 * (eta.min + 1)
                     /\ eta.min >= 0
                     /\ 10 * eta.min < 3 * h

\* the rule model over a horizon of 30 minutes: a link with two violations
\* and no trend, at 0.7, has no ETA; a node with two violations and a trend,
\* at 0.8, has the ETA floor(0.2 * 30) = 6
C28_Witness ==
    /\ response.status = 200
    /\ model_mode = "rule"
    /\ response.horizon_min = 30
    /\ Len(response.predictions) = 2
    /\ response.predictions[1].risk_score = 7000
    /\ response.predictions[1].eta_failure_min = None
    /\ response.predictions[2].risk_score = 8000
    /\ response.predictions[2].eta_failure_min = Minutes(6)
(***************************************************************************)
(* Properties of the rate limiter                                          *)
(***************************************************************************)
\* the requests of the log that were passed on
AdmittedAt(i) == rate_log[i].status = "call_next"

\* the earlier admitted requests of the client of request i that are less
\* than 60 seconds older than it
AdmittedBefore(i) ==
    {j \in 1..(i - 1) :
        /\ rate_log[j].client = rate_log[i].client
        /\ AdmittedAt(j)
        /\ rate_log[i].time - rate_log[j].time < 60}

HighRisk == {plan_scores[k].id : k \in {m \in 1..Len(plan_scores) :
                                            plan_scores[m].score > 60}}

\* the rationale text says what the action does and to what
Justifies(text, action) ==
    CASE action.type = "ISOLATE" ->
           text = <<"Isolate high-risk node ", action.node>>
      [] action.type = "REROUTE" ->
           \/ /\ Len(action.flow) = 2
              /\ action.flow[1] = "FLOW_"
              /\ text = <<"Reroute traffic from congested link ",
                          action.flow[2]>>
           \/ text = <<"Protect critical flow ">> \o action.flow
                         \o <<" by rerouting">>
      [] action.type = "SHIFT_RESERVE" ->
           text = <<"Increase reserve capacity on underutilized node ",
                    action.node>>
      [] OTHER -> FALSE

\* the action comes from an entity whose score is above 0.6: the isolated
\* node is one, the bypass is that of a link that is one
Triggered(action) ==
    CASE action.type = "ISOLATE" -> action.node \in HighRisk
      [] action.type = "REROUTE" ->
           \E e \in HighRisk :
               /\ startswith(e, "L")
               /\ action.via = alt_path(e, plan_topology)
      [] OTHER -> TRUE

\* C30: a plan's actions and rationale have one length and rationale[i]
\* justifies actions[i]; every ISOLATE and REROUTE action comes from an
\* entity whose score is strictly above 0.6; risk_delta is -0.15 per
\* REROUTE and -0.10 per ISOLATE action and never positive;
\* sla_violations_avoided is half the number of high-risk entities,
\* rounded down, whatever the actions are
C30_PlanShape ==
    plan_request # None =>
        /\ Len(plan_response.actions) = Len(plan_response.rationale)
        /\ \A i \in 1..Len(plan_response.actions) :
              /\ Justifies(plan_response.rationale[i],
                           plan_response.actions[i])
              /\ Triggered(plan_response.actions[i])
        /\ plan_response.estimated_gain.risk_delta =
              0 - 15 * count_type(plan_response.actions, "REROUTE")
                - 10 * count_type(plan_response.actions, "ISOLATE")
        /\ plan_response.estimated_gain.risk_delta <= 0
        /\ plan_response.estimated_gain.sla_violations_avoided =
              Cardinality(HighRisk) \div 2

\* a plan that isolates a node, reroutes around a link and shifts reserve,
\* made while a third entity scores exactly 0.6
C30_Witness ==
    /\ plan_request # None
    /\ count_type(plan_response.actions, "ISOLATE") = 1
    /\ count_type(plan_response.actions, "REROUTE") = 3
    /\ count_type(plan_response.actions, "SHIFT_RESERVE") > 0
    /\ Cardinality(HighRisk) = 2
    /\ plan_response.estimated_gain.sla_violations_avoided = 1
    /\ \E k \in 1..Len(plan_scores) : plan_scores[k].score = 60

=============================================================================
